---- MODULE Spec2Model ----
(***************************************************************************)
(* A model of the kenall client (client.go, errors.go, options.go):        *)
(* NewClient, the nine public operations and the dispatcher sendRequest.   *)
(* Strings whose characters matter are sequences of one-character strings; *)
(* an error is the chain of its layers, outermost first, as errors.Unwrap  *)
(* walks it; the empty chain is the nil error.                             *)
(***************************************************************************)
EXTENDS Integers, Sequences, FiniteSets, TLC

VARIABLES cli, call, intSize, dec, calls

vars == <<cli, call, intSize, dec, calls>>

\* ---------------------------------------------------------------- bounds
\* Lengths tried around each required length: L-1-MaxExtra .. L+MaxExtra.
MaxExtra == 1
\* Longest response body, in chunks as the body reader hands them out.
MaxBody == 2
\* Longest option list given to NewClient.
MaxOpts == 2
\* Length of the one over-long digit string (beyond every int width).
LongLen == 20

\* ------------------------------------------------------- small helpers
Digits == {"0", "1", "2", "3", "4", "5", "6", "7", "8", "9"}

DigitChar(d) == CASE d = 0 -> "0" [] d = 1 -> "1" [] d = 2 -> "2" [] d = 3 -> "3"
                  [] d = 4 -> "4" [] d = 5 -> "5" [] d = 6 -> "6" [] d = 7 -> "7"
                  [] d = 8 -> "8" [] d = 9 -> "9"

RECURSIVE UItoa(_)
UItoa(n) == IF n < 10 THEN <<DigitChar(n)>>
            ELSE UItoa(n \div 10) \o <<DigitChar(n % 10)>>

\* strconv.Itoa: the decimal form, with a leading minus sign below zero.
Itoa(n) == IF n < 0 THEN <<"-">> \o UItoa(0 - n) ELSE UItoa(n)

RECURSIVE Repeat(_, _)
Repeat(c, n) == IF n <= 0 THEN <<>> ELSE <<c>> \o Repeat(c, n - 1)

RECURSIVE StripZeros(_)
StripZeros(s) == IF s # <<>> /\ Head(s) = "0" THEN StripZeros(Tail(s)) ELSE s

RECURSIVE LexLess(_, _)
\* a < b for two digit strings of equal length
LexLess(a, b) == IF a = <<>> THEN FALSE
                 ELSE IF Head(a) # Head(b)
                      THEN \E x \in 0..9, y \in 0..9 :
                              /\ DigitChar(x) = Head(a) /\ DigitChar(y) = Head(b)
                              /\ x < y
                      ELSE LexLess(Tail(a), Tail(b))

\* the magnitude written by digit string a exceeds the one written by b
MagGreater(a, b) ==
    LET x == StripZeros(a)
        y == StripZeros(b)
    IN  \/ Len(x) > Len(y)
        \/ Len(x) = Len(y) /\ LexLess(y, x)

Contains(s, t) == \E i \in 1..(Len(s) - Len(t) + 1) : SubSeq(s, i, i + Len(t) - 1) = t

\* ------------------------------------------------------------- strconv
\* The largest magnitudes of an int of the build's width: 1<<(w-1)-1 for a
\* value without a minus sign, 1<<(w-1) with one.
MaxMag(w, neg) ==
    IF w = 32
    THEN IF neg THEN <<"2","1","4","7","4","8","3","6","4","8">>
                ELSE <<"2","1","4","7","4","8","3","6","4","7">>
    ELSE IF neg THEN <<"9","2","2","3","3","7","2","0","3","6","8","5","4","7","7","5","8","0","8">>
                ELSE <<"9","2","2","3","3","7","2","0","3","6","8","5","4","7","7","5","8","0","7">>

\* strconv.Atoi(s) for an int of w bits: "nil", "ErrSyntax" or "ErrRange".
\* An optional sign, then at least one digit and nothing else; a value beyond
\* the int width is a range error.
AtoiErr(s, w) ==
    IF s = <<>> THEN "ErrSyntax"
    ELSE LET neg  == Head(s) = "-"
             body == IF Head(s) \in {"+", "-"} THEN Tail(s) ELSE s
         IN  IF body = <<>> THEN "ErrSyntax"
             ELSE IF \E i \in 1..Len(body) : body[i] \notin Digits THEN "ErrSyntax"
             ELSE IF MagGreater(body, MaxMag(w, neg)) THEN "ErrRange"
             ELSE "nil"

\* -------------------------------------------------------------- errors
Layer(k) == [k |-> k, code |-> 0]

NilError == <<>>

ErrInvalidArgument     == <<Layer("ErrInvalidArgument")>>
ErrUnauthorized        == <<Layer("ErrUnauthorized")>>
ErrPaymentRequired     == <<Layer("ErrPaymentRequired")>>
ErrForbidden           == <<Layer("ErrForbidden")>>
ErrNotFound            == <<Layer("ErrNotFound")>>
ErrMethodNotAllowed    == <<Layer("ErrMethodNotAllowed")>>
ErrInternalServerError == <<Layer("ErrInternalServerError")>>

Sentinels == {ErrInvalidArgument, ErrUnauthorized, ErrPaymentRequired, ErrForbidden,
              ErrNotFound, ErrMethodNotAllowed, ErrInternalServerError}

\* fmt.Errorf(format + ": %w", err): a new layer around err
Wrap(k, err) == <<Layer(k)>> \o err

\* ErrTimeout(err): "kenall: request timeout: %w"
ErrTimeout(err) == Wrap("kenall: request timeout", err)

\* errors.Is(err, target) for a target that is a single sentinel value
Is(err, target) == \E i \in 1..Len(err) : err[i] = target[1]


errFailedGenerateRequestFormat == "kenall: failed to generate an http request"
errFailedRequestFormat         == "kenall: failed to send a request for kenall service"
errFailedDoFormat              == "kenall: failed to do http client with a request for kenall service"
errFailedDecodeFormat          == "kenall: failed to decode to response"
errUnregisteredFormat          == "kenall: not registered in the error handling, http status code = "

\* err.Error(): the text of the chain, layer by layer; %d prints the status
\* code in decimal.
RECURSIVE Msg(_)
Msg(err) ==
    IF err = <<>> THEN <<>>
    ELSE LET l == Head(err)
             own == IF l.k = errUnregisteredFormat THEN <<l.k>> \o Itoa(l.code) ELSE <<l.k>>
         IN  IF Tail(err) = <<>> THEN own ELSE own \o <<": ">> \o Msg(Tail(err))

\* ----------------------------------------------------- http, net/url, io
StatusOK                  == 200
StatusUnauthorized        == 401
StatusPaymentRequired     == 402
StatusForbidden           == 403
StatusNotFound            == 404
StatusMethodNotAllowed    == 405
StatusInternalServerError == 500

\* The status codes the transport is let to answer with: the mapped ones, 200,
\* other 2xx codes and unmapped 4xx/5xx codes.
Statuses == {StatusOK, 201, 204, StatusUnauthorized, StatusPaymentRequired, StatusForbidden,
             StatusNotFound, StatusMethodNotAllowed, 418, StatusInternalServerError, 502, 503}

Contexts == {"nil", "Background", "WithTimeout", "WithCancel"}

\* What a failing http.Client.Do reports as the cause inside its *url.Error.
TransportCauses == {"context deadline exceeded", "wrapped context deadline exceeded",
                    "context canceled", "i/o timeout", "connection refused",
                    "unsupported protocol scheme"}

\* errors.Is(err, context.DeadlineExceeded)
IsDeadlineExceeded(cause) ==
    cause \in {"context deadline exceeded", "wrapped context deadline exceeded"}

\* os.IsTimeout(err): the *url.Error asks its cause for a Timeout() method
IsTimeout(cause) == cause \in {"context deadline exceeded", "i/o timeout"}

ControlChars == {"\n", "\t"}

\* The index of the first c in s, 0 when there is none.
FirstIndex(s, c) ==
    IF \E i \in 1..Len(s) : s[i] = c
    THEN CHOOSE i \in 1..Len(s) : s[i] = c /\ \A j \in 1..(i - 1) : s[j] # c
    ELSE 0

\* The URL up to its fragment: url.Parse cuts at the first "#".
BeforeFragment(u) ==
    IF FirstIndex(u, "#") = 0 THEN u ELSE SubSeq(u, 1, FirstIndex(u, "#") - 1)

\* url.Parse as far as the requests of this client exercise it: a control
\* character before the fragment is refused, a colon before any scheme name
\* is a missing scheme, and a leading scheme name followed by "://" is the
\* scheme.
ParseURL(u) ==
    IF \E i \in 1..Len(BeforeFragment(u)) : u[i] \in ControlChars
    THEN [err |-> "net/url: invalid control character in URL", scheme |-> ""]
    ELSE IF u # <<>> /\ u[1] = ":"
    THEN [err |-> "missing protocol scheme", scheme |-> ""]
    ELSE IF Len(u) >= 2 /\ u[1] \in {"https", "http", "ftp"} /\ u[2] = "://"
    THEN [err |-> "nil", scheme |-> u[1]]
    ELSE [err |-> "nil", scheme |-> ""]

NoRequest == [method |-> "", url |-> <<>>, header |-> <<>>, ctx |-> "nil", scheme |-> ""]

\* http.NewRequestWithContext(ctx, http.MethodGet, url, nil): a request with an
\* empty header, or an error for a nil context or an unparsable URL.
NewRequestWithContext(ctx, url) ==
    IF ctx = "nil" THEN [err |-> <<Layer("net/http: nil Context")>>, req |-> NoRequest]
    ELSE LET p == ParseURL(url)
         IN  IF p.err # "nil"
             THEN [err |-> <<Layer("*url.Error"), Layer(p.err)>>, req |-> NoRequest]
             ELSE [err |-> NilError,
                   req |-> [method |-> "GET", url |-> url, header |-> <<>>,
                            ctx |-> ctx, scheme |-> p.scheme]]

\* http.Header.Add
HeaderAdd(h, name, value) == Append(h, <<name, value>>)

\* http.Header.Get: the first value under the name, "" when there is none
HeaderGet(h, name) ==
    IF \E i \in 1..Len(h) : h[i][1] = name
    THEN h[CHOOSE i \in 1..Len(h) : h[i][1] = name /\ \A j \in 1..(i - 1) : h[j][1] # name][2]
    ELSE <<>>

\* A response body: len chunks, pos of them read so far, and what was done
\* to it, in order.
Body(kind, len, val) ==
    [kind |-> kind, len |-> len, val |-> val, pos |-> 0, closed |-> FALSE, log |-> <<>>]

NoBody == Body("none", 0, 0)

\* json.Decoder.Decode reading n chunks of the body
BodyDecodeRead(b, n) ==
    [b EXCEPT !.pos = IF b.closed THEN @ ELSE IF @ + n > b.len THEN b.len ELSE @ + n,
              !.log = Append(@, "Decode")]

\* io.Copy(io.Discard, resp.Body): reads whatever is left, unless closed
BodyDrain(b) ==
    [b EXCEPT !.pos = IF b.closed THEN @ ELSE b.len, !.log = Append(@, "Copy")]

\* resp.Body.Close()
BodyClose(b) == [b EXCEPT !.closed = TRUE, !.log = Append(@, "Close")]


\* ------------------------------------------------------ client, options
Endpoint == <<"https", "://", "api.kenall.jp", "/v1">>

\* The endpoints a caller configures: the default, a local test server, the
\* empty string, and one that url.Parse refuses.
Endpoints == {Endpoint, <<"http", "://", "127.0.0.1:8080">>, <<>>, <<":", "bad">>}

HTTPClients == {"http.DefaultClient", "custom", "nil"}

Tokens == {"", "opencollector", "bad_token"}

NoClient == [HTTPClient |-> "nil", Endpoint |-> <<>>, token |-> ""]

WithHTTPClient(h) == [opt |-> "withHTTPClient", client |-> h, endpoint |-> <<>>]
WithEndpoint(e)   == [opt |-> "withEndpoint", client |-> "nil", endpoint |-> e]

Options == {WithHTTPClient(h) : h \in HTTPClients} \cup {WithEndpoint(e) : e \in Endpoints}

OptionLists == UNION {[1..n -> Options] : n \in 0..MaxOpts}

\* (*withHTTPClient).Apply and (*withEndpoint).Apply
Apply(opt, c) ==
    IF opt.opt = "withHTTPClient" THEN [c EXCEPT !.HTTPClient = opt.client]
    ELSE [c EXCEPT !.Endpoint = opt.endpoint]

\* ApplyAll walking the options from the last to the first.
RECURSIVE ApplyAllReversed(_, _)
ApplyAllReversed(opts, c) ==
    IF opts = <<>> THEN c
    ELSE Apply(Head(opts), ApplyAllReversed(Tail(opts), c))

RECURSIVE ApplyAll(_, _)
ApplyAll(opts, c) == IF opts = <<>> THEN c ELSE ApplyAll(Tail(opts), Apply(Head(opts), c))

\* NewClient(token, opts...)
NewClient(token, opts) ==
    IF token = "" THEN [cli |-> NoClient, err |-> ErrInvalidArgument]
    ELSE [cli |-> ApplyAll(opts, [HTTPClient |-> "http.DefaultClient",
                                  Endpoint   |-> Endpoint,
                                  token      |-> token]),
          err |-> NilError]

\* ------------------------------------------------------------ transport
\* What the transport does with one request: it fails with a cause, or it
\* answers with a status and a body.  For a 200 the decoder reads `used`
\* chunks of the body before it stops.
ErrOutcome(cause) ==
    [kind |-> "err", cause |-> cause, status |-> 0, body |-> NoBody, used |-> 0]

RespOutcome(status, body, used) ==
    [kind |-> "resp", cause |-> "", status |-> status, body |-> body, used |-> used]

NoOutcome    == [kind |-> "none", cause |-> "", status |-> 0, body |-> NoBody, used |-> 0]
PanicOutcome == [kind |-> "panic", cause |-> "", status |-> 0, body |-> NoBody, used |-> 0]

Bodies == {Body("empty", 0, 0)}
          \cup {Body("value", n, v) : n \in 1..MaxBody, v \in {0, 1}}
          \cup {Body(k, n, 0) : k \in {"malformed", "badfield"}, n \in 1..MaxBody}

\* The causes a context lets happen: a deadline error needs a deadline, a
\* cancellation needs a cancel function.
CauseAllowed(ctx, cause) ==
    /\ cause # "unsupported protocol scheme"
    /\ IsDeadlineExceeded(cause) => ctx = "WithTimeout"
    /\ cause = "context canceled" => ctx = "WithCancel"

Outcomes(ctx) ==
    {ErrOutcome(c) : c \in {x \in TransportCauses : CauseAllowed(ctx, x)}}
    \cup {RespOutcome(st, Body("empty", 0, 0), 0) : st \in Statuses \ {StatusOK}}
    \cup {RespOutcome(st, Body("value", n, 0), 0) : st \in Statuses \ {StatusOK}, n \in 1..MaxBody}
    \cup {RespOutcome(StatusOK, b, u) : b \in {x \in Bodies : x.len = 0}, u \in {0}}
    \cup UNION {{RespOutcome(StatusOK, b, u) : u \in 1..b.len} : b \in {x \in Bodies : x.len > 0}}

\* The service's check of the Authorization header, as the test server does
\* it: two fields, the second the one token it knows.
ServerAccepts(req) ==
    LET v == HeaderGet(req.header, "Authorization")
    IN  Len(v) = 2 /\ v[2] = "opencollector"

\* cli.HTTPClient.Do(req): a nil client panics; a URL without an http(s)
\* scheme fails before anything is sent; a request the service does not
\* accept the token of is answered 401; otherwise the outcome is o.
Do(c, req, o) ==
    IF c.HTTPClient = "nil" THEN PanicOutcome
    ELSE IF req.scheme \notin {"http", "https"} THEN ErrOutcome("unsupported protocol scheme")
    ELSE IF o.kind = "resp" /\ ~ServerAccepts(req)
    THEN RespOutcome(StatusUnauthorized, Body("empty", 0, 0), 0)
    ELSE o


\* ----------------------------------------------------------- sendRequest
\* AuthorizationValue with another scheme word.
AuthorizationValueBearer(token) == <<"Bearer ", token>>

\* "token "+cli.token
AuthorizationValue(token) == <<"token ", token>>

\* AddAuthorization that also passes the token as a query parameter.
AddAuthorizationInQuery(req, c) ==
    [req EXCEPT !.header = HeaderAdd(@, "Authorization", AuthorizationValue(c.token)),
                !.url = @ \o <<"&", "token", "=", c.token>>]

\* req.Header.Add("Authorization", "token "+cli.token)
AddAuthorization(req, c) ==
    [req EXCEPT !.header = HeaderAdd(@, "Authorization", AuthorizationValue(c.token))]

\* TransportError without the os.IsTimeout test.
TransportErrorDeadlineOnly(cause) ==
    LET err == <<Layer("*url.Error"), Layer(cause)>>
    IN  IF IsDeadlineExceeded(cause)
        THEN ErrTimeout(err)
        ELSE Wrap(errFailedDoFormat, err)

\* TransportError handing the transport's error back as it came.
TransportErrorUnwrapped(cause) == <<Layer("*url.Error"), Layer(cause)>>

\* The error for a failed Do: Timeout for a deadline or a timeout, a generic
\* error otherwise; both wrap the *url.Error and its cause.
TransportError(cause) ==
    LET err == <<Layer("*url.Error"), Layer(cause)>>
    IN  IF IsDeadlineExceeded(cause) \/ IsTimeout(cause)
        THEN ErrTimeout(err)
        ELSE Wrap(errFailedDoFormat, err)

\* What json.Decoder.Decode reports for a body: nil for a value of the
\* target's shape, the cause otherwise.
DecodeCause(b) ==
    CASE b.kind = "value"     -> NilError
      [] b.kind = "empty"     -> <<Layer("EOF")>>
      [] b.kind = "malformed" -> <<Layer("*json.SyntaxError")>>
      [] OTHER                -> <<Layer("kenall: failed to parse"), Layer("parse error")>>

\* StatusError with two case labels exchanged: 402 answers Forbidden.
StatusErrorSwapped(status) ==
    CASE status = StatusUnauthorized        -> ErrUnauthorized
      [] status = StatusPaymentRequired     -> ErrForbidden
      [] status = StatusForbidden           -> ErrPaymentRequired
      [] status = StatusNotFound            -> ErrNotFound
      [] status = StatusMethodNotAllowed    -> ErrMethodNotAllowed
      [] status = StatusInternalServerError -> ErrInternalServerError
      [] OTHER -> <<[k |-> errUnregisteredFormat, code |-> status]>>

\* StatusError whose default branch answers the 500 sentinel.
StatusErrorNoDefault(status) ==
    CASE status = StatusUnauthorized        -> ErrUnauthorized
      [] status = StatusPaymentRequired     -> ErrPaymentRequired
      [] status = StatusForbidden           -> ErrForbidden
      [] status = StatusNotFound            -> ErrNotFound
      [] status = StatusMethodNotAllowed    -> ErrMethodNotAllowed
      [] OTHER -> ErrInternalServerError

\* The branches of the status switch other than 200.
StatusError(status) ==
    CASE status = StatusUnauthorized        -> ErrUnauthorized
      [] status = StatusPaymentRequired     -> ErrPaymentRequired
      [] status = StatusForbidden           -> ErrForbidden
      [] status = StatusNotFound            -> ErrNotFound
      [] status = StatusMethodNotAllowed    -> ErrMethodNotAllowed
      [] status = StatusInternalServerError -> ErrInternalServerError
      [] OTHER -> <<[k |-> errUnregisteredFormat, code |-> status]>>

\* StatusSwitch handing on the decoder's error as it is.
StatusSwitchUnwrapped(status, b, used) ==
    IF status = StatusOK
    THEN [err |-> DecodeCause(b), body |-> BodyDecodeRead(b, used),
          decoded |-> DecodeCause(b) = NilError]
    ELSE [err |-> StatusError(status), body |-> b, decoded |-> FALSE]

\* switch resp.StatusCode: the body is decoded for a 200 alone.
StatusSwitch(status, b, used) ==
    IF status = StatusOK
    THEN LET d == DecodeCause(b)
         IN  [err     |-> IF d = NilError THEN NilError ELSE Wrap(errFailedDecodeFormat, d),
              body    |-> BodyDecodeRead(b, used),
              decoded |-> d = NilError]
    ELSE [err |-> StatusError(status), body |-> b, decoded |-> FALSE]

\* DeferredClose closing before it drains.
DeferredCloseFirst(b) == BodyDrain(BodyClose(b))

\* The deferred function: drain the body, then close it.
DeferredClose(b) == BodyClose(BodyDrain(b))

\* sendRequest trying a failed Do a second time.
sendRequestRetry(c, req, o) ==
    LET sent == AddAuthorization(req, c)
        r    == Do(c, sent, o)
        base == [requests |-> <<sent>>, out |-> r, err |-> NilError, body |-> NoBody,
                 decoded |-> FALSE, val |-> 0]
    IN  IF r.kind = "panic" THEN base
        ELSE IF r.kind = "err"
        THEN [base EXCEPT !.requests = <<sent, sent>>, !.err = TransportError(r.cause)]
        ELSE LET sw == StatusSwitch(r.status, r.body, r.used)
             IN  [base EXCEPT !.err = sw.err,
                              !.body = DeferredClose(sw.body),
                              !.decoded = sw.decoded,
                              !.val = IF sw.decoded THEN r.body.val ELSE 0]

sendRequest(c, req, o) ==
    LET sent == AddAuthorization(req, c)
        r    == Do(c, sent, o)
        base == [requests |-> <<sent>>, out |-> r, err |-> NilError, body |-> NoBody,
                 decoded |-> FALSE, val |-> 0]
    IN  IF r.kind = "panic" THEN base
        ELSE IF r.kind = "err" THEN [base EXCEPT !.err = TransportError(r.cause)]
        ELSE LET sw == StatusSwitch(r.status, r.body, r.used)
             IN  [base EXCEPT !.err = sw.err,
                              !.body = DeferredClose(sw.body),
                              !.decoded = sw.decoded,
                              !.val = IF sw.decoded THEN r.body.val ELSE 0]

\* -------------------------------------------------------- public operations
\* time.Time as a calendar date; the zero value is January 1 of year 1.
Date(y, m, d) == [y |-> y, m |-> m, d |-> d]
ZeroDate == Date(1, 1, 1)
IsZero(t) == t = ZeroDate

\* A response handed to the caller: its type, what was decoded from the body
\* (the number of records, or the boolean result as 0 or 1), and the time a
\* BusinessDay carries; for a GetWhoamiResponse, its RemoteAddress pointer.
NilRemoteAddress == [nil |-> TRUE, ra |-> <<>>]
Result(type, val) == [type |-> type, val |-> val, time |-> ZeroDate, remote |-> NilRemoteAddress]
NilResult == Result("nil", 0)

NoCall == [op |-> "none", token |-> "", opts |-> <<>>,
           ctx |-> "nil", arg |-> <<>>, year |-> 0, from |-> ZeroDate, to |-> ZeroDate,
           date |-> ZeroDate, validated |-> FALSE, wire |-> <<>>,
           requests |-> <<>>, out |-> NoOutcome, body |-> NoBody,
           dispatched |-> FALSE, dispErr |-> NilError,
           res |-> NilResult, err |-> NilError, panicked |-> FALSE]

\* Rejected with the request built ahead of the validation: a nil context is
\* reported first.
RejectedAfterBuild(op, ctx, arg) ==
    [NoCall EXCEPT !.op = op, !.ctx = ctx, !.arg = arg,
                   !.err = IF ctx = "nil"
                           THEN Wrap(errFailedGenerateRequestFormat,
                                     NewRequestWithContext(ctx, <<>>).err)
                           ELSE ErrInvalidArgument]

\* An operation that refuses its argument: ErrInvalidArgument, nothing sent.
Rejected(op, ctx, arg) ==
    [NoCall EXCEPT !.op = op, !.ctx = ctx, !.arg = arg, !.err = ErrInvalidArgument]

\* requestAndSend printing the dispatcher's error with %v: the text is kept,
\* the chain is cut.
requestAndSendOpaque(op, type, ctx, arg, url, c, o) ==
    LET nr   == NewRequestWithContext(ctx, url)
        base == [NoCall EXCEPT !.op = op, !.ctx = ctx, !.arg = arg, !.validated = TRUE]
    IN  IF nr.err # NilError
        THEN [base EXCEPT !.err = Wrap(errFailedGenerateRequestFormat, nr.err)]
        ELSE LET s == sendRequest(c, nr.req, o)
                 b == [base EXCEPT !.requests = s.requests, !.out = s.out, !.body = s.body,
                                   !.dispatched = TRUE, !.dispErr = s.err]
             IN  IF s.out.kind = "panic" THEN [b EXCEPT !.panicked = TRUE]
                 ELSE IF s.err # NilError
                 THEN [b EXCEPT !.err = <<Layer(errFailedRequestFormat)>>]
                 ELSE [b EXCEPT !.res = Result(type, s.val)]

\* requestAndSend returning &res together with the dispatcher's error.
requestAndSendPartial(op, type, ctx, arg, url, c, o) ==
    LET nr   == NewRequestWithContext(ctx, url)
        base == [NoCall EXCEPT !.op = op, !.ctx = ctx, !.arg = arg, !.validated = TRUE]
    IN  IF nr.err # NilError
        THEN [base EXCEPT !.err = Wrap(errFailedGenerateRequestFormat, nr.err)]
        ELSE LET s == sendRequest(c, nr.req, o)
                 b == [base EXCEPT !.requests = s.requests, !.out = s.out, !.body = s.body,
                                   !.dispatched = TRUE, !.dispErr = s.err]
             IN  IF s.out.kind = "panic" THEN [b EXCEPT !.panicked = TRUE]
                 ELSE IF s.err # NilError
                 THEN [b EXCEPT !.err = Wrap(errFailedRequestFormat, s.err),
                                !.res = Result(type, s.val)]
                 ELSE [b EXCEPT !.res = Result(type, s.val)]

\* The part every operation shares after its validation: build the request,
\* hand it to sendRequest, wrap what comes back.
requestAndSend(op, type, ctx, arg, url, c, o) ==
    LET nr   == NewRequestWithContext(ctx, url)
        base == [NoCall EXCEPT !.op = op, !.ctx = ctx, !.arg = arg, !.validated = TRUE]
    IN  IF nr.err # NilError
        THEN [base EXCEPT !.err = Wrap(errFailedGenerateRequestFormat, nr.err)]
        ELSE LET s == sendRequest(c, nr.req, o)
                 b == [base EXCEPT !.requests = s.requests, !.out = s.out, !.body = s.body,
                                   !.dispatched = TRUE, !.dispErr = s.err]
             IN  IF s.out.kind = "panic" THEN [b EXCEPT !.panicked = TRUE]
                 ELSE IF s.err # NilError
                 THEN [b EXCEPT !.err = Wrap(errFailedRequestFormat, s.err)]
                 ELSE [b EXCEPT !.res = Result(type, s.val)]

\* _, err := strconv.Atoi(code); err != nil || len(code) != n
invalidCode(code, n, w) == AtoiErr(code, w) # "nil" \/ Len(code) # n

PostalCodeLen      == 7
PrefectureCodeLen  == 2
CorporateNumberLen == 13

Str(first, fill, last, n) ==
    IF n = 0 THEN <<>>
    ELSE IF n = 1 THEN <<first>>
    ELSE <<first>> \o Repeat(fill, n - 2) \o <<last>>

\* The strings tried as a code of required length L: digits, signs and
\* letters, of lengths around L, and one digit string beyond every int.
CodeInputs(L) ==
    {Str(f, m, l, n) : f \in {"0", "2", "+", "-", "a"}, m \in {"0", "9"}, l \in {"7", "x"},
                       n \in {0} \cup {k \in 0..(L + MaxExtra) : k >= L - 1 - MaxExtra}}
    \cup {Repeat("9", LongLen)}


\* net/url QueryEscape, one character at a time: letters, digits and - _ . ~
\* stay, a space becomes a plus sign, everything else is percent-encoded.
EscapeChar(ch) ==
    CASE ch \in Digits \cup {"-", "_", ".", "~", "a", "b"} -> <<ch>>
      [] ch = " "  -> <<"+">>
      [] ch = "&"  -> <<"%26">>
      [] ch = "#"  -> <<"%23">>
      [] ch = "+"  -> <<"%2B">>
      [] ch = "%"  -> <<"%25">>
      [] ch = "="  -> <<"%3D">>
      [] ch = "\n" -> <<"%0A">>
      [] ch = "\t" -> <<"%09">>

RECURSIVE QueryEscape(_)
QueryEscape(str) == IF str = <<>> THEN <<>> ELSE EscapeChar(Head(str)) \o QueryEscape(Tail(str))

EncodeFirstOnly(v) ==
    IF v = <<>> THEN <<>> ELSE <<Head(v)[1], "=">> \o QueryEscape(Head(v)[2])

\* url.Values.Encode for a list of <<key, value>> pairs given in key order:
\* key=value joined by "&"; nil encodes to the empty string.
RECURSIVE Encode(_)
Encode(v) ==
    IF v = <<>> THEN <<>>
    ELSE <<Head(v)[1], "=">> \o QueryEscape(Head(v)[2])
         \o (IF Tail(v) = <<>> THEN <<>> ELSE <<"&">> \o Encode(Tail(v)))

Dates == {ZeroDate, Date(2022, 1, 1), Date(2022, 12, 31)}

Pad(str, n) == Repeat("0", n - Len(str)) \o str

\* t.Format(RFC3339DateFormat), "2006-01-02"
FormatDate(t) == Pad(UItoa(t.y), 4) \o <<"-">> \o Pad(UItoa(t.m), 2) \o <<"-">> \o Pad(UItoa(t.d), 2)


WhiteSpace == {" ", "\t", "\n"}

RECURSIVE TrimLeft(_)
TrimLeft(str) == IF str # <<>> /\ Head(str) \in WhiteSpace THEN TrimLeft(Tail(str)) ELSE str

RECURSIVE TrimRight(_)
TrimRight(str) ==
    IF str # <<>> /\ str[Len(str)] \in WhiteSpace THEN TrimRight(SubSeq(str, 1, Len(str) - 1))
    ELSE str

TrimSpaceLeftOnly(str) == TrimLeft(str)

\* strings.TrimSpace
TrimSpace(str) == TrimRight(TrimLeft(str))

Addresses == {<<>>, <<" ">>, <<"a">>, <<" ", "a", " ">>, <<"a", " ", "b">>,
              <<"a", "\t", "b">>, <<"\t", "a">>,
              <<"a", "&", "b">>, <<"a", "#", "b">>, <<"a", "+", "b">>, <<"a", "%", "b">>,
              <<"a", "=", "b">>, <<"%", "2", "6">>}

\* ------------------------------------------------- the service's reading
\* What the service is asked: the URL between its first "?" and its
\* fragment. The fragment is never sent.
RawQuery(u) ==
    LET sent == BeforeFragment(u)
    IN  IF FirstIndex(sent, "?") = 0 THEN <<>>
        ELSE SubSeq(sent, FirstIndex(sent, "?") + 1, Len(sent))

RECURSIVE Split(_, _)
Split(s, sep) ==
    IF FirstIndex(s, sep) = 0 THEN <<s>>
    ELSE <<SubSeq(s, 1, FirstIndex(s, sep) - 1)>>
         \o Split(SubSeq(s, FirstIndex(s, sep) + 1, Len(s)), sep)

UnescapeToken(tok) ==
    CASE tok = "+"   -> " "
      [] tok = "%26" -> "&"
      [] tok = "%23" -> "#"
      [] tok = "%2B" -> "+"
      [] tok = "%25" -> "%"
      [] tok = "%3D" -> "="
      [] tok = "%0A" -> "\n"
      [] tok = "%09" -> "\t"
      [] OTHER       -> tok

\* url.QueryUnescape: a plus sign is a space, a percent sign must be followed
\* by two hex digits and stands for the character they encode.
RECURSIVE QueryUnescape(_)
QueryUnescape(s) ==
    LET HexDigits   == Digits \cup {"a", "b", "A", "B"}
        Unhex(x, y) == CASE <<x, y>> = <<"2", "6">> -> "&"
                         [] <<x, y>> = <<"2", "3">> -> "#"
                         [] OTHER                   -> "\\x"
    IN  IF s = <<>> THEN [err |-> FALSE, v |-> <<>>]
        ELSE IF Head(s) = "%"
        THEN IF Len(s) >= 3 /\ s[2] \in HexDigits /\ s[3] \in HexDigits
             THEN LET r == QueryUnescape(SubSeq(s, 4, Len(s)))
                  IN  [err |-> r.err, v |-> <<Unhex(s[2], s[3])>> \o r.v]
             ELSE [err |-> TRUE, v |-> <<>>]
        ELSE LET r == QueryUnescape(Tail(s))
             IN  [err |-> r.err, v |-> <<UnescapeToken(Head(s))>> \o r.v]

\* url.ParseQuery over the pieces between "&": an empty piece and a piece
\* with a bad escape are dropped, the others are key and value around the
\* first "=".
RECURSIVE ParsePieces(_)
ParsePieces(ps) ==
    IF ps = <<>> THEN <<>>
    ELSE LET p == Head(ps)
             i == FirstIndex(p, "=")
             k == QueryUnescape(IF i = 0 THEN p ELSE SubSeq(p, 1, i - 1))
             v == QueryUnescape(IF i = 0 THEN <<>> ELSE SubSeq(p, i + 1, Len(p)))
         IN  (IF p = <<>> \/ k.err \/ v.err THEN <<>> ELSE <<<<k.v, v.v>>>>)
             \o ParsePieces(Tail(ps))

\* r.URL.Query() at the service. A space in the request target ends the
\* target early and the request line is refused: nothing is decoded.
ServerQuery(u) ==
    IF \E i \in 1..Len(RawQuery(u)) : RawQuery(u)[i] = " " THEN <<>>
    ELSE ParsePieces(Split(RawQuery(u), "&"))


\* ------------------------------------------------------------ JSON values
\* A JSON value as encoding/json tokenises it: its type, the text of a
\* string, the value of a number or boolean, the members of an object in
\* wire order as <<key, value>> pairs.
JSONValue(t, s, n, m) == [t |-> t, s |-> s, n |-> n, m |-> m]

JSONNull      == JSONValue("null", <<>>, 0, <<>>)
JSONString(s) == JSONValue("string", s, 0, <<>>)
JSONNumber(n) == JSONValue("number", <<>>, n, <<>>)
JSONObject(m) == JSONValue("object", <<>>, 0, m)

nullLiteral == <<"n", "u", "l", "l">>

\* The bytes an UnmarshalJSON method receives for a value.
RECURSIVE Raw(_)
RECURSIVE RawMembers(_)
Raw(v) ==
    CASE v.t = "null"   -> nullLiteral
      [] v.t = "string" -> <<"\"">> \o v.s \o <<"\"">>
      [] v.t = "number" -> Itoa(v.n)
      [] v.t = "bool"   -> IF v.n = 1 THEN <<"t", "r", "u", "e">> ELSE <<"f", "a", "l", "s", "e">>
      [] v.t = "array"  -> <<"[", "]">>
      [] v.t = "object" -> <<"{">> \o RawMembers(v.m) \o <<"}">>
RawMembers(m) ==
    IF m = <<>> THEN <<>>
    ELSE <<"\"", Head(m)[1], "\"", ":">> \o Raw(Head(m)[2])
         \o (IF Tail(m) = <<>> THEN <<>> ELSE <<",">> \o RawMembers(Tail(m)))

\* json.Unmarshal into a Go string holding cur: null leaves it alone, a JSON
\* string replaces it, every other type is an UnmarshalTypeError.
UnmarshalString(v, cur) ==
    CASE v.t = "null"   -> [v |-> cur, err |-> NilError]
      [] v.t = "string" -> [v |-> v.s, err |-> NilError]
      [] OTHER          -> [v |-> cur, err |-> <<Layer("*json.UnmarshalTypeError")>>]

\* json.Unmarshal into a Go int holding cur
UnmarshalInt(v, cur) ==
    CASE v.t = "null"   -> [v |-> cur, err |-> NilError]
      [] v.t = "number" -> [v |-> v.n, err |-> NilError]
      [] OTHER          -> [v |-> cur, err |-> <<Layer("*json.UnmarshalTypeError")>>]

\* ------------------------------------------------------------------ time
\* time.Time as the decoders produce it: a calendar date and hour on the
\* wall clock of a zone, and the zone's offset from UTC in seconds.
Time(date, hour, offset) ==
    [y |-> date.y, m |-> date.m, d |-> date.d, hour |-> hour, offset |-> offset]

UTC == 0
jst == 9 * 60 * 60

ZeroTime == Time(ZeroDate, 0, UTC)

\* daysIn(m, year): the length of a month, February's by the leap year rule
daysIn(m, y) ==
    IF m = 2 THEN (IF y % 4 = 0 /\ (y % 100 # 0 \/ y % 400 = 0) THEN 29 ELSE 28)
    ELSE IF m \in {4, 6, 9, 11} THEN 30 ELSE 31

DigitVal(ch) == CHOOSE n \in 0..9 : DigitChar(n) = ch

\* time.Parse walking the layout prefix + "2006-01-02" + suffix over value:
\* a four-digit year, a two-digit month in 1..12, a two-digit day (getnum
\* with fixed width), the literals in between, nothing after the suffix, and
\* at the end the day checked against the length of the month.
Parse(prefix, value, suffix) ==
    LET isDigit(s, i)   == Len(s) >= i /\ s[i] \in Digits
        hasPrefix(s, p) == Len(s) >= Len(p) /\ SubSeq(s, 1, Len(p)) = p
        Drop(s, n)      == SubSeq(s, n + 1, Len(s))
        ParseError(msg) == [err |-> msg, date |-> ZeroDate]
        getnum(s)       ==
            IF isDigit(s, 1) /\ isDigit(s, 2)
            THEN [err |-> "nil", n |-> DigitVal(s[1]) * 10 + DigitVal(s[2])]
            ELSE [err |-> "bad value", n |-> 0]
    IN
    IF ~hasPrefix(value, prefix) THEN ParseError("bad prefix")
    ELSE LET v1 == Drop(value, Len(prefix))
         IN  IF ~(Len(v1) >= 4 /\ isDigit(v1, 1)) THEN ParseError("bad year")
             ELSE IF ~(\A i \in 2..4 : isDigit(v1, i)) THEN ParseError("bad year")
             ELSE LET year == DigitVal(v1[1]) * 1000 + DigitVal(v1[2]) * 100
                              + DigitVal(v1[3]) * 10 + DigitVal(v1[4])
                      v2   == Drop(v1, 4)
                  IN  IF ~hasPrefix(v2, <<"-">>) THEN ParseError("bad separator")
                      ELSE LET mo == getnum(Drop(v2, 1))
                               v3 == Drop(v2, 3)
                           IN  IF mo.err # "nil" THEN ParseError("bad month")
                               ELSE IF mo.n <= 0 \/ 12 < mo.n THEN ParseError("month out of range")
                               ELSE IF ~hasPrefix(v3, <<"-">>) THEN ParseError("bad separator")
                               ELSE LET dy == getnum(Drop(v3, 1))
                                        v4 == Drop(v3, 3)
                                    IN  IF dy.err # "nil" THEN ParseError("bad day")
                                        ELSE IF ~hasPrefix(v4, suffix) THEN ParseError("bad suffix")
                                        ELSE IF Len(v4) # Len(suffix) THEN ParseError("extra text")
                                        ELSE IF dy.n < 1 \/ dy.n > daysIn(mo.n, year)
                                        THEN ParseError("day out of range")
                                        ELSE [err |-> "nil", date |-> Date(year, mo.n, dy.n)]

\* ------------------------------------------------------------- decoders
\* func (v *Version) UnmarshalJSON(data []byte) error
VersionUnmarshalJSONSwallow(v, data) ==
    IF Raw(data) = nullLiteral THEN [v |-> v, err |-> NilError]
    ELSE LET t == Parse(<<"\"">>, Raw(data), <<"\"">>)
         IN  IF t.err # "nil"
             THEN [v |-> v, err |-> NilError]
             ELSE [v |-> Time(t.date, 0, UTC), err |-> NilError]

\* VersionUnmarshalJSON storing the zero time for null.
VersionUnmarshalJSONNullResets(v, data) ==
    IF Raw(data) = nullLiteral THEN [v |-> ZeroTime, err |-> NilError]
    ELSE LET t == Parse(<<"\"">>, Raw(data), <<"\"">>)
         IN  IF t.err # "nil"
             THEN [v |-> v,
                   err |-> Wrap("kenall: failed to parse date with RFC3339 Date",
                                <<Layer("*time.ParseError")>>)]
             ELSE [v |-> Time(t.date, 0, UTC), err |-> NilError]

VersionUnmarshalJSON(v, data) ==
    IF Raw(data) = nullLiteral THEN [v |-> v, err |-> NilError]
    ELSE LET t == Parse(<<"\"">>, Raw(data), <<"\"">>)
         IN  IF t.err # "nil"
             THEN [v |-> v,
                   err |-> Wrap("kenall: failed to parse date with RFC3339 Date",
                                <<Layer("*time.ParseError")>>)]
             ELSE [v |-> Time(t.date, 0, UTC), err |-> NilError]

NullString(str, valid) == [String |-> str, Valid |-> valid]

\* func (ns *NullString) UnmarshalJSON(data []byte) error
NullStringUnmarshalJSONValidFirst(ns, data) ==
    IF Raw(data) = nullLiteral THEN [v |-> ns, err |-> NilError]
    ELSE LET u == UnmarshalString(data, ns.String)
         IN  IF u.err # NilError
             THEN [v |-> NullString(u.v, TRUE),
                   err |-> Wrap("kenall: failed to parse NullString", u.err)]
             ELSE [v |-> NullString(u.v, TRUE), err |-> NilError]

NullStringUnmarshalJSON(ns, data) ==
    IF Raw(data) = nullLiteral THEN [v |-> ns, err |-> NilError]
    ELSE LET u == UnmarshalString(data, ns.String)
         IN  IF u.err # NilError
             THEN [v |-> NullString(u.v, ns.Valid),
                   err |-> Wrap("kenall: failed to parse NullString", u.err)]
             ELSE [v |-> NullString(u.v, TRUE), err |-> NilError]

\* json.Unmarshal of an object's members into a struct whose fields, by JSON
\* name, have the Go types in kinds: unknown keys are skipped, a value of the
\* wrong type is remembered as the error while the remaining members are
\* still stored.
RECURSIVE UnmarshalMembers(_, _, _)
UnmarshalMembers(m, cur, kinds) ==
    IF m = <<>> THEN [v |-> cur, err |-> NilError]
    ELSE LET k    == Head(m)[1]
             jv   == Head(m)[2]
             step == IF k \notin DOMAIN kinds THEN [v |-> cur, err |-> NilError]
                     ELSE LET u == IF kinds[k] = "int" THEN UnmarshalInt(jv, cur[k])
                                   ELSE UnmarshalString(jv, cur[k])
                          IN  [v |-> [cur EXCEPT ![k] = u.v], err |-> u.err]
             rest == UnmarshalMembers(Tail(m), step.v, kinds)
         IN  [v |-> rest.v, err |-> IF step.err # NilError THEN step.err ELSE rest.err]

\* json.Unmarshal(data, &tmp) for a struct tmp
UnmarshalStruct(data, cur, kinds) ==
    CASE data.t = "object" -> UnmarshalMembers(data.m, cur, kinds)
      [] data.t = "null"   -> [v |-> cur, err |-> NilError]
      [] OTHER             -> [v |-> cur, err |-> <<Layer("*json.UnmarshalTypeError")>>]

\* net.IP values by their literal: the byte length, whether To4() is
\* non-nil, and the text String() prints.
IP(len, to4, str) == [len |-> len, to4 |-> to4, str |-> str]
NilIP == IP(0, FALSE, <<>>)

IPLiterals == {<<"127.0.0.1">>, <<"::1">>, <<"0:0:0:0:0:0:0:1">>, <<"::ffff:127.0.0.1">>}

ParseIP(s) ==
    CASE s = <<"127.0.0.1">>        -> IP(16, TRUE, <<"127.0.0.1">>)
      [] s = <<"::1">>              -> IP(16, FALSE, <<"::1">>)
      [] s = <<"0:0:0:0:0:0:0:1">>  -> IP(16, FALSE, <<"::1">>)
      [] s = <<"::ffff:127.0.0.1">> -> IP(16, TRUE, <<"127.0.0.1">>)
      [] OTHER                      -> NilIP

\* What the resolver of the machine answers for a host name.

lookupIPAddr(host, dns) ==
    IF host \in IPLiterals THEN <<ParseIP(host)>>
    ELSE CASE dns = "A"    -> <<ParseIP(<<"127.0.0.1">>)>>
           [] dns = "AAAA" -> <<ParseIP(<<"::1">>)>>
           [] dns = "both" -> <<ParseIP(<<"127.0.0.1">>), ParseIP(<<"::1">>)>>
           [] OTHER        -> <<>>

ipv4only(ip) == ip.to4
ipv6only(ip) == ip.len = 16 /\ ~ip.to4

\* *net.IPAddr: nil, or an address holding an IP (possibly the nil IP)
IPAddr(ip) == [nil |-> FALSE, IP |-> ip]
NilIPAddr  == [nil |-> TRUE, IP |-> NilIP]

\* net.ResolveIPAddr(network, address) for network "ip4" or "ip6": an empty
\* address is answered with an IPAddr that holds no IP; otherwise the literal
\* or the looked-up addresses are filtered by family and the first is taken.
ResolveIPAddr(network, address, dns) ==
    IF address = <<>> THEN [addr |-> IPAddr(NilIP), err |-> NilError]
    ELSE LET ips  == lookupIPAddr(address, dns)
             keep == SelectSeq(ips, LAMBDA ip : IF network = "ip4" THEN ipv4only(ip)
                                                ELSE ipv6only(ip))
         IN  IF ips = <<>> THEN [addr |-> NilIPAddr, err |-> <<Layer("*net.DNSError")>>]
             ELSE IF keep = <<>> THEN [addr |-> NilIPAddr, err |-> <<Layer("*net.AddrError")>>]
             ELSE [addr |-> IPAddr(Head(keep)), err |-> NilError]

RemoteAddress(type, address, ipaddr) == [Type |-> type, Address |-> address, IPAddr |-> ipaddr]
ZeroRemoteAddress == RemoteAddress(<<>>, <<>>, NilIPAddr)

\* func (ra *RemoteAddress) UnmarshalJSON(data []byte) error. tmp aliases the
\* receiver, so the fields are stored in place; a JSON null sets tmp itself
\* to nil and the switch on tmp.Type dereferences it.
RemoteAddressUnmarshalJSON(ra, data, dns) ==
    LET u   == UnmarshalStruct(data, [type |-> ra.Type, address |-> ra.Address],
                               [type |-> "string", address |-> "string"])
        got == [ra EXCEPT !.Type = u.v.type, !.Address = u.v.address]
    IN  IF u.err # NilError
        THEN [v |-> got, err |-> Wrap("kenall: failed to parse RemoteAddress", u.err),
              panicked |-> FALSE]
        ELSE IF data.t = "null"
        THEN [v |-> ra, err |-> NilError, panicked |-> TRUE]
        ELSE CASE got.Type = <<"v", "4">> ->
                    LET r == ResolveIPAddr("ip4", got.Address, dns)
                    IN  [v |-> [got EXCEPT !.IPAddr = r.addr],
                         err |-> IF r.err # NilError
                                 THEN Wrap("kenall: failde to resolve IP address", r.err)
                                 ELSE NilError,
                         panicked |-> FALSE]
               [] got.Type = <<"v", "6">> ->
                    LET r == ResolveIPAddr("ip6", got.Address, dns)
                    IN  [v |-> [got EXCEPT !.IPAddr = r.addr],
                         err |-> IF r.err # NilError
                                 THEN Wrap("kenall: failed to resolve IP address", r.err)
                                 ELSE NilError,
                         panicked |-> FALSE]
               [] OTHER ->
                    [v |-> got,
                     err |-> <<Layer("kenall: undefined type of RemoteAddress, type = ")>>,
                     panicked |-> FALSE]

\* func (ra *RemoteAddress) Network() string: (*net.IPAddr).Network
RemoteAddressNetwork(ra) == <<"ip">>

\* func (ra *RemoteAddress) String() string: (*net.IPAddr).String
RemoteAddressString(ra) ==
    IF ra.IPAddr.nil THEN <<"<nil>">> ELSE ra.IPAddr.IP.str

\* Days from January 1 of year 1 to the date, as time.Time counts them:
\* the days of the years before, of the months before, and of the month.
absDays(t) ==
    LET daysBefore ==
            <<0, 31, 59, 90, 120, 151, 181, 212, 243, 273, 304, 334>>
        daysSinceEpoch ==
            365 * (t.y - 1) + ((t.y - 1) \div 4) - ((t.y - 1) \div 100) + ((t.y - 1) \div 400)
    IN  daysSinceEpoch + daysBefore[t.m]
        + (IF daysIn(2, t.y) = 29 /\ t.m > 2 THEN 1 ELSE 0) + (t.d - 1)

\* t.Weekday(): 0 is Sunday; day 0 of the count is a Monday
WeekdaySundayFirst(t) == absDays(t) % 7

Weekday(t) == (absDays(t) + 1) % 7

\* Weekday.String()
WeekdayString(w) ==
    CASE w = 0 -> <<"S", "u", "n", "d", "a", "y">>
      [] w = 1 -> <<"M", "o", "n", "d", "a", "y">>
      [] w = 2 -> <<"T", "u", "e", "s", "d", "a", "y">>
      [] w = 3 -> <<"W", "e", "d", "n", "e", "s", "d", "a", "y">>
      [] w = 4 -> <<"T", "h", "u", "r", "s", "d", "a", "y">>
      [] w = 5 -> <<"F", "r", "i", "d", "a", "y">>
      [] w = 6 -> <<"S", "a", "t", "u", "r", "d", "a", "y">>

\* strings.ToLower on the letters that occur
ToLower(str) ==
    LET lower(ch) == CASE ch = "S" -> "s" [] ch = "M" -> "m" [] ch = "T" -> "t"
                       [] ch = "W" -> "w" [] ch = "F" -> "f" [] OTHER -> ch
    IN  [i \in 1..Len(str) |-> lower(str[i])]

Holiday(title, time) == [Title |-> title, Time |-> time]
ZeroHoliday == Holiday(<<>>, ZeroTime)

\* the wire form of a holiday, type holiday
holiday(title, date, dayOfWeek, dayOfWeekText) ==
    [title |-> title, date |-> date, day_of_week |-> dayOfWeek, day_of_week_text |-> dayOfWeekText]

HolidayUnmarshalJSONUTC(h, data) ==
    LET u == UnmarshalStruct(data, holiday(<<>>, <<>>, 0, <<>>),
                               [title |-> "string", date |-> "string",
                                day_of_week |-> "int", day_of_week_text |-> "string"])
    IN  IF u.err # NilError
        THEN [v |-> h, err |-> Wrap("kenall: failed to parse Holiday", u.err)]
        ELSE LET t == Parse(<<>>, u.v.date, <<>>)
             IN  IF t.err # "nil"
                 THEN [v |-> [h EXCEPT !.Time = ZeroTime],
                       err |-> Wrap("kenall: failed to parse Holiday",
                                    <<Layer("*time.ParseError")>>)]
                 ELSE [v |-> Holiday(u.v.title, Time(t.date, 0, UTC)), err |-> NilError]

\* func (h *Holiday) UnmarshalJSON(data []byte) error. h.Time receives what
\* time.ParseInLocation returns, the zero time included when it fails.
HolidayUnmarshalJSON(h, data) ==
    LET u == UnmarshalStruct(data, holiday(<<>>, <<>>, 0, <<>>),
                               [title |-> "string", date |-> "string",
                                day_of_week |-> "int", day_of_week_text |-> "string"])
    IN  IF u.err # NilError
        THEN [v |-> h, err |-> Wrap("kenall: failed to parse Holiday", u.err)]
        ELSE LET t == Parse(<<>>, u.v.date, <<>>)
             IN  IF t.err # "nil"
                 THEN [v |-> [h EXCEPT !.Time = ZeroTime],
                       err |-> Wrap("kenall: failed to parse Holiday",
                                    <<Layer("*time.ParseError")>>)]
                 ELSE [v |-> Holiday(u.v.title, Time(t.date, 0, jst)), err |-> NilError]

\* HolidayMarshalJSON writing the date of the same instant in UTC.
HolidayMarshalJSONUTC(h) ==
    LET back == h.Time.offset > h.Time.hour * 60 * 60
        day  == IF ~back THEN Date(h.Time.y, h.Time.m, h.Time.d)
                ELSE IF h.Time.d > 1 THEN Date(h.Time.y, h.Time.m, h.Time.d - 1)
                ELSE IF h.Time.m > 1
                THEN Date(h.Time.y, h.Time.m - 1, daysIn(h.Time.m - 1, h.Time.y))
                ELSE Date(h.Time.y - 1, 12, 31)
    IN  JSONObject(<<<<"title", JSONString(h.Title)>>,
                     <<"date", JSONString(FormatDate(day))>>,
                     <<"day_of_week", JSONNumber(Weekday(h.Time))>>,
                     <<"day_of_week_text", JSONString(ToLower(WeekdayString(Weekday(h.Time))))>>>>)

\* func (h Holiday) MarshalJSON() ([]byte, error)
HolidayMarshalJSON(h) ==
    JSONObject(<<<<"title", JSONString(h.Title)>>,
                 <<"date", JSONString(FormatDate(h.Time))>>,
                 <<"day_of_week", JSONNumber(Weekday(h.Time))>>,
                 <<"day_of_week_text", JSONString(ToLower(WeekdayString(Weekday(h.Time))))>>>>)

\* The last decoder or encoder run: its receiver before and after, the bytes
\* it was given or produced, and how it ended.
NoDec == [type |-> "none", op |-> "none", data |-> JSONNull, dns |-> "none",
          recv |-> <<>>, val |-> <<>>, err |-> NilError, out |-> JSONNull,
          panicked |-> FALSE]

\* &GetBusinessDaysResponse{BusinessDay: &BusinessDay{LegalHoliday: res.Result,
\* Time: date}}
BusinessDaysResponseZeroTime(result, date) ==
    [Result("GetBusinessDaysResponse", result) EXCEPT !.time = ZeroDate]

BusinessDaysResponse(result, date) ==
    [Result("GetBusinessDaysResponse", result) EXCEPT !.time = date]

\* The calls two goroutines have in progress on the one client: where each
\* stands, the request it built, the outcome the transport has for it, and
\* the call as its caller sees it.
NoCalls ==
    [t \in {"a", "b"} |-> [pc |-> "idle", req |-> NoRequest, o |-> NoOutcome, call |-> NoCall]]

\* ---------------------------------------------------------------- actions
Init ==
    /\ cli = NoClient
    /\ call = NoCall
    /\ intSize \in {32, 64}
    /\ dec = NoDec
    /\ calls = NoCalls

Ready == cli # NoClient /\ call = NoCall

DoNewClient ==
    /\ call = NoCall
    /\ \E token \in Tokens, opts \in OptionLists :
         LET r == NewClient(token, opts)
         IN  /\ cli' = r.cli
             /\ call' = [NoCall EXCEPT !.op = "NewClient", !.token = token, !.opts = opts,
                                       !.err = r.err]
    /\ UNCHANGED <<intSize, dec, calls>>

GetAddress ==
    /\ Ready
    /\ \E ctx \in Contexts, postalCode \in CodeInputs(PostalCodeLen) : \E o \in Outcomes(ctx) :
         call' = IF invalidCode(postalCode, PostalCodeLen, intSize)
                 THEN Rejected("GetAddress", ctx, postalCode)
                 ELSE requestAndSend("GetAddress", "GetAddressResponse", ctx, postalCode,
                                     cli.Endpoint \o <<"/postalcode/">> \o postalCode, cli, o)
    /\ UNCHANGED <<cli, intSize, dec, calls>>

GetCity ==
    /\ Ready
    /\ \E ctx \in Contexts, prefectureCode \in CodeInputs(PrefectureCodeLen) : \E o \in Outcomes(ctx) :
         call' = IF invalidCode(prefectureCode, PrefectureCodeLen, intSize)
                 THEN Rejected("GetCity", ctx, prefectureCode)
                 ELSE requestAndSend("GetCity", "GetCityResponse", ctx, prefectureCode,
                                     cli.Endpoint \o <<"/cities/">> \o prefectureCode, cli, o)
    /\ UNCHANGED <<cli, intSize, dec, calls>>

GetCorporation ==
    /\ Ready
    /\ \E ctx \in Contexts, corporateNumber \in CodeInputs(CorporateNumberLen) : \E o \in Outcomes(ctx) :
         call' = IF invalidCode(corporateNumber, CorporateNumberLen, intSize)
                 THEN Rejected("GetCorporation", ctx, corporateNumber)
                 ELSE requestAndSend("GetCorporation", "GetCorporationResponse", ctx,
                                     corporateNumber,
                                     cli.Endpoint \o <<"/houjinbangou/">> \o corporateNumber,
                                     cli, o)
    /\ UNCHANGED <<cli, intSize, dec, calls>>

\* type GetWhoamiResponse struct { RemoteAddress *RemoteAddress
\* `json:"remote_addr"` }, as json.Unmarshal fills it from the members of a
\* body it accepts: the pointer stays nil without the member, is set to nil
\* for null, and is allocated and handed to RemoteAddress.UnmarshalJSON for
\* any other value.
GetWhoamiResponse(res, members) ==
    IF members = <<>> \/ members[1][2].t = "null" THEN [res EXCEPT !.remote = NilRemoteAddress]
    ELSE [res EXCEPT !.remote =
              [nil |-> FALSE,
               ra  |-> RemoteAddressUnmarshalJSON(ZeroRemoteAddress, members[1][2], "none").v]]

\* The server answers a body that decodes with {}, {"remote_addr":null} or a
\* remote_addr object the decoder accepts.
GetWhoami ==
    /\ Ready
    /\ \E ctx \in Contexts : \E o \in Outcomes(ctx) :
         LET sent == requestAndSend("GetWhoami", "GetWhoamiResponse", ctx, <<>>,
                                    cli.Endpoint \o <<"/whoami">>, cli, o)
             object(type, address) ==
                 JSONObject(<<<<"type", JSONString(type)>>, <<"address", JSONString(address)>>>>)
         IN  IF sent.res = NilResult THEN call' = sent
             ELSE \E members \in {<<>>} \cup
                                  {<<<<"remote_addr", v>>>> :
                                      v \in {JSONNull, object(<<"v", "4">>, <<"127.0.0.1">>),
                                             object(<<"v", "6">>, <<"::1">>)}} :
                    call' = [sent EXCEPT !.wire = members,
                                         !.res = GetWhoamiResponse(sent.res, members)]
    /\ UNCHANGED <<cli, intSize, dec, calls>>

\* getHolidays answering an empty list with ErrNotFound.
getHolidaysEmptyNotFound(op, ctx, v, c, o) ==
    LET sent == requestAndSend(op, "GetHolidaysResponse", ctx, Encode(v),
                               c.Endpoint \o <<"/holidays", "?">> \o Encode(v), c, o)
    IN  IF sent.res # NilResult /\ sent.res.val = 0
        THEN [sent EXCEPT !.res = NilResult, !.err = ErrNotFound]
        ELSE sent

\* getHolidays(ctx, v)
getHolidays(op, ctx, v, c, o) ==
    requestAndSend(op, "GetHolidaysResponse", ctx, Encode(v),
                   c.Endpoint \o <<"/holidays", "?">> \o Encode(v), c, o)

GetHolidays ==
    /\ Ready
    /\ \E ctx \in Contexts : \E o \in Outcomes(ctx) :
         call' = getHolidays("GetHolidays", ctx, <<>>, cli, o)
    /\ UNCHANGED <<cli, intSize, dec, calls>>

GetHolidaysByYear ==
    /\ Ready
    /\ \E ctx \in Contexts, year \in {0 - 1, 0, 2022} : \E o \in Outcomes(ctx) :
         call' = [getHolidays("GetHolidaysByYear", ctx, <<<<"year", Itoa(year)>>>>, cli, o)
                    EXCEPT !.year = year]
    /\ UNCHANGED <<cli, intSize, dec, calls>>

GetHolidaysByPeriod ==
    /\ Ready
    /\ \E ctx \in Contexts, from \in Dates, to \in Dates : \E o \in Outcomes(ctx) :
         call' = [getHolidays("GetHolidaysByPeriod", ctx,
                              <<<<"from", FormatDate(from)>>, <<"to", FormatDate(to)>>>>, cli, o)
                    EXCEPT !.from = from, !.to = to]
    /\ UNCHANGED <<cli, intSize, dec, calls>>

GetNormalizeAddress ==
    /\ Ready
    /\ \E ctx \in Contexts, address \in Addresses : \E o \in Outcomes(ctx) :
         LET trimmed == TrimSpace(address)
         IN  call' = IF trimmed = <<>>
                     THEN Rejected("GetNormalizeAddress", ctx, address)
                     ELSE requestAndSend("GetNormalizeAddress", "GetNormalizeAddressResponse",
                                         ctx, address,
                                         cli.Endpoint \o <<"/postalcode/", "?", "t", "=">> \o trimmed,
                                         cli, o)
    /\ UNCHANGED <<cli, intSize, dec, calls>>

GetBusinessDays ==
    /\ Ready
    /\ \E ctx \in Contexts, date \in Dates : \E o \in Outcomes(ctx) :
         LET sent == requestAndSend("GetBusinessDays", "GetBusinessDaysResponse", ctx,
                                    FormatDate(date),
                                    cli.Endpoint \o <<"/businessdays/check", "?", "date", "=">>
                                                 \o FormatDate(date), cli, o)
         IN  call' = [IF IsZero(date)
                      THEN Rejected("GetBusinessDays", ctx, FormatDate(date))
                      ELSE IF sent.res = NilResult THEN sent
                      ELSE [sent EXCEPT !.res = BusinessDaysResponse(sent.res.val, date)]
                        EXCEPT !.date = date]
    /\ UNCHANGED <<cli, intSize, dec, calls>>

\* The caller takes the result; the next call starts from a clean slate.
Return ==
    /\ call # NoCall
    /\ call' = NoCall
    /\ UNCHANGED <<cli, intSize, dec, calls>>

Next ==
    \/ DoNewClient
    \/ GetAddress
    \/ GetCity
    \/ GetCorporation
    \/ GetWhoami
    \/ GetHolidays
    \/ GetHolidaysByYear
    \/ GetHolidaysByPeriod
    \/ GetNormalizeAddress
    \/ GetBusinessDays
    \/ Return

Spec == Init /\ [][Next]_vars

\* ------------------------------------------------- decoder inputs, actions
\* JSON values that are neither a string nor a populated object.
Scalars == {JSONNull, JSONValue("bool", <<>>, 1, <<>>), JSONNumber(20201130), JSONNumber(0),
            JSONValue("array", <<>>, 0, <<>>), JSONObject(<<>>)}

\* Texts offered as a date: every combination of the tried years, months
\* and days in the ten-character form, and texts that are not in that form.
DateTexts ==
    {FormatDate(Date(y, m, d)) : y \in {1, 2020, 2021, 2022}, m \in {1, 2, 12, 13},
                                 d \in {0, 1, 29, 31}}
    \cup {<<>>, UItoa(20201130),
          <<"2", "0", "2", "0", "-", "1", "1", "-", "3">>,
          <<"2", "0", "2", "0", "-", "1", "-", "3", "0">>,
          <<"2", "0", "2", "0", "/", "1", "1", "/", "3", "0">>,
          <<"2", "0", "-", "1", "1", "-", "3", "0">>,
          <<"+", "2", "0", "2", "-", "1", "1", "-", "3", "0">>,
          <<" ", "2", "0", "2", "0", "-", "1", "1", "-", "3", "0">>,
          <<"2", "0", "2", "0", "-", "1", "1", "-", "3", "0", "T">>,
          <<"a">>}

VersionInputs == Scalars \cup {JSONString(s) : s \in DateTexts}

NullStringInputs ==
    Scalars \cup {JSONString(s) : s \in {<<>>, <<"a">>, <<"a", "b">>, <<" ">>, nullLiteral, <<"1">>}}

\* A member that may be absent: no member, or the key with one of the values.
Optional(key, values) == {<<>>} \cup {<<<<key, v>>>> : v \in values}

RemoteAddressInputs ==
    (Scalars \ {JSONObject(<<>>)})
    \cup {JSONObject(t \o a) :
            t \in Optional("type", {JSONString(<<"v", "4">>), JSONString(<<"v", "6">>),
                                    JSONString(<<"v", "8">>), JSONString(<<>>),
                                    JSONNumber(4), JSONNull}),
            a \in Optional("address", {JSONString(s) : s \in IPLiterals \cup {<<>>, <<"wrong">>,
                                                                          <<"localhost">>}}
                                      \cup {JSONNumber(1), JSONNull})}

HolidayInputs ==
    (Scalars \ {JSONObject(<<>>)})
    \cup {JSONObject(t \o d \o w \o x) :
            t \in Optional("title", {JSONString(<<"a">>), JSONString(<<>>), JSONNumber(1),
                                     JSONNull}),
            d \in Optional("date",
                           {JSONString(FormatDate(Date(y, m, dd))) :
                               y \in {2020, 2022}, m \in {1, 2, 13}, dd \in {1, 29}}
                           \cup {JSONString(<<>>), JSONString(UItoa(20220101)),
                                 JSONString(<<"2", "0", "2", "2", "-", "1", "-", "1">>),
                                 JSONNumber(20220101), JSONNull}),
            w \in Optional("day_of_week", {JSONNumber(6), JSONNumber(0), JSONNull,
                                           JSONString(<<"6">>)}),
            x \in Optional("day_of_week_text",
                           {JSONString(<<"s", "a", "t", "u", "r", "d", "a", "y">>),
                            JSONString(<<"m", "o", "n", "d", "a", "y">>), JSONNumber(6)})}

\* The receivers a decoder is run on: the zero value of the type and one
\* value left by an earlier decode.
Receivers(type) ==
    CASE type = "Version"       -> {ZeroTime, Time(Date(2020, 11, 30), 0, UTC)}
      [] type = "NullString"    -> {NullString(<<>>, FALSE), NullString(<<"a">>, TRUE)}
      [] type = "RemoteAddress" ->
             {ZeroRemoteAddress,
              RemoteAddress(<<"v", "4">>, <<"127.0.0.1">>, IPAddr(ParseIP(<<"127.0.0.1">>)))}
      [] type = "Holiday"       -> {ZeroHoliday, Holiday(<<"a">>, Time(Date(2022, 1, 1), 0, jst))}

\* Holidays a caller may hold when encoding.
Holidays ==
    {Holiday(title, Time(date, hour, offset)) :
        title \in {<<>>, <<"a">>},
        date \in {ZeroDate, Date(1900, 3, 1), Date(2000, 2, 29), Date(2020, 3, 1),
                  Date(2022, 1, 1), Date(2022, 12, 31), Date(2024, 12, 25)},
        hour \in {0, 20}, offset \in {UTC, jst}}

Decoded(type, data, recv, r) ==
    [NoDec EXCEPT !.type = type, !.op = "UnmarshalJSON", !.data = data, !.recv = recv,
                  !.val = r.v, !.err = r.err]

DoVersionUnmarshalJSON ==
    /\ dec = NoDec
    /\ \E data \in VersionInputs, v \in Receivers("Version") :
         dec' = Decoded("Version", data, v, VersionUnmarshalJSON(v, data))
    /\ UNCHANGED <<cli, call, intSize, calls>>

DoNullStringUnmarshalJSON ==
    /\ dec = NoDec
    /\ \E data \in NullStringInputs, ns \in Receivers("NullString") :
         dec' = Decoded("NullString", data, ns, NullStringUnmarshalJSON(ns, data))
    /\ UNCHANGED <<cli, call, intSize, calls>>

DoRemoteAddressUnmarshalJSON ==
    /\ dec = NoDec
    /\ \E data \in RemoteAddressInputs, ra \in Receivers("RemoteAddress"), dns \in {"none", "A", "AAAA", "both"} :
         LET r == RemoteAddressUnmarshalJSON(ra, data, dns)
         IN  dec' = [Decoded("RemoteAddress", data, ra, r) EXCEPT !.dns = dns,
                                                                  !.panicked = r.panicked]
    /\ UNCHANGED <<cli, call, intSize, calls>>

DoHolidayUnmarshalJSON ==
    /\ dec = NoDec
    /\ \E data \in HolidayInputs, h \in Receivers("Holiday") :
         dec' = Decoded("Holiday", data, h, HolidayUnmarshalJSON(h, data))
    /\ UNCHANGED <<cli, call, intSize, calls>>

DoHolidayMarshalJSON ==
    /\ dec = NoDec
    /\ \E h \in Holidays :
         dec' = [NoDec EXCEPT !.type = "Holiday", !.op = "MarshalJSON", !.recv = h, !.val = h,
                              !.out = HolidayMarshalJSON(h)]
    /\ UNCHANGED <<cli, call, intSize, calls>>

\* json.Marshal of a Holiday, then json.Unmarshal of the bytes into a new
\* Holiday; the Holidays tried include one of the last four-digit year and one
\* of the first year after it.
DoHolidayEncodeDecode ==
    /\ dec = NoDec
    /\ \E h \in Holidays \cup {Holiday(<<"a">>, Time(date, 0, jst)) :
                                  date \in {Date(9999, 12, 31), Date(10000, 1, 1)}} :
         LET out == HolidayMarshalJSON(h)
             r   == HolidayUnmarshalJSON(ZeroHoliday, out)
         IN  dec' = [NoDec EXCEPT !.type = "Holiday", !.op = "EncodeDecode", !.recv = h,
                                  !.out = out, !.data = out, !.val = r.v, !.err = r.err]
    /\ UNCHANGED <<cli, call, intSize, calls>>

\* json.Unmarshal of a wire record into a new Holiday, then json.Marshal of
\* the Holiday when the decode succeeded.
DoHolidayDecodeEncode ==
    /\ dec = NoDec
    /\ \E data \in HolidayInputs :
         LET r == HolidayUnmarshalJSON(ZeroHoliday, data)
         IN  dec' = [NoDec EXCEPT !.type = "Holiday", !.op = "DecodeEncode", !.data = data,
                                  !.recv = ZeroHoliday, !.val = r.v, !.err = r.err,
                                  !.out = IF r.err = NilError THEN HolidayMarshalJSON(r.v)
                                          ELSE JSONNull]
    /\ UNCHANGED <<cli, call, intSize, calls>>

\* The caller takes what the run produced.
DecReturn ==
    /\ dec # NoDec
    /\ dec' = NoDec
    /\ UNCHANGED <<cli, call, intSize, calls>>

DecInit ==
    /\ cli = NoClient
    /\ call = NoCall
    /\ intSize = 64
    /\ dec = NoDec
    /\ calls = NoCalls

DecNext ==
    \/ DoVersionUnmarshalJSON
    \/ DoNullStringUnmarshalJSON
    \/ DoRemoteAddressUnmarshalJSON
    \/ DoHolidayUnmarshalJSON
    \/ DoHolidayMarshalJSON
    \/ DoHolidayEncodeDecode
    \/ DoHolidayDecodeEncode
    \/ DecReturn

DecSpec == DecInit /\ [][DecNext]_vars



\* ---------------------------------------------- concurrent calls, one client
\* BuildRequest appending the path to the client's own Endpoint.
BuildRequestInPlace(c, ctx, path) ==
    [cli |-> [c EXCEPT !.Endpoint = @ \o path],
     nr  |-> NewRequestWithContext(ctx, c.Endpoint \o path)]

\* http.NewRequestWithContext(ctx, http.MethodGet, cli.Endpoint+path, nil):
\* the request or the error, and the client as the statement leaves it.
BuildRequest(c, ctx, path) ==
    [cli |-> c, nr |-> NewRequestWithContext(ctx, c.Endpoint \o path)]

\* A goroutine enters GetCity or GetHolidays: the argument is validated and
\* the request is built from cli.Endpoint.
CallBegin(t) ==
    /\ calls[t].pc \in {"idle", "done"}
    /\ \E op \in {"GetCity", "GetHolidays"}, ctx \in {"nil", "Background"},
          code \in {<<"1", "3">>, <<"1">>} :
         LET arg   == IF op = "GetCity" THEN code ELSE <<>>
             path  == IF op = "GetCity" THEN <<"/cities/">> \o code ELSE <<"/holidays", "?">>
             built == BuildRequest(cli, ctx, path)
             base  == [NoCall EXCEPT !.op = op, !.ctx = ctx, !.arg = arg, !.validated = TRUE]
         IN  IF op = "GetCity" /\ invalidCode(code, PrefectureCodeLen, intSize)
             THEN /\ calls' = [calls EXCEPT ![t] = [pc |-> "done", req |-> NoRequest,
                                                    o |-> NoOutcome,
                                                    call |-> Rejected(op, ctx, arg)]]
                  /\ cli' = cli
             ELSE /\ cli' = built.cli
                  /\ calls' = [calls EXCEPT ![t] =
                        IF built.nr.err # NilError
                        THEN [pc |-> "done", req |-> NoRequest, o |-> NoOutcome,
                              call |-> [base EXCEPT !.err = Wrap(errFailedGenerateRequestFormat,
                                                                 built.nr.err)]]
                        ELSE [pc |-> "built", req |-> built.nr.req, o |-> NoOutcome,
                              call |-> base]]
    /\ UNCHANGED <<call, intSize, dec>>

\* sendRequest up to cli.HTTPClient.Do: the header is added from cli.token
\* and the request is handed to cli.HTTPClient; o is what the transport will
\* answer this request with.
CallSend(t) ==
    /\ calls[t].pc = "built"
    /\ \E o \in {RespOutcome(StatusOK, Body("value", 1, 1), 1),
                  RespOutcome(StatusOK, Body("malformed", 1, 0), 1),
                  RespOutcome(StatusNotFound, Body("empty", 0, 0), 0),
                  ErrOutcome("connection refused")} :
         LET sent == AddAuthorization(calls[t].req, cli)
             r    == Do(cli, sent, o)
         IN  calls' = [calls EXCEPT ![t].pc = IF r.kind = "panic" THEN "done" ELSE "sent",
                                    ![t].o = o,
                                    ![t].call.requests = <<sent>>,
                                    ![t].call.out = r,
                                    ![t].call.dispatched = TRUE,
                                    ![t].call.panicked = r.kind = "panic"]
    /\ UNCHANGED <<cli, call, intSize, dec>>

\* Do returns: the rest of sendRequest and of the operation, the error
\* wrapped or the response handed to the caller.
CallReceive(t) ==
    /\ calls[t].pc = "sent"
    /\ LET c    == calls[t].call
           r    == c.out
           sw   == StatusSwitch(r.status, r.body, r.used)
           err  == IF r.kind = "err" THEN TransportError(r.cause) ELSE sw.err
           type == IF c.op = "GetCity" THEN "GetCityResponse" ELSE "GetHolidaysResponse"
       IN  calls' = [calls EXCEPT
                        ![t].pc = "done",
                        ![t].call.dispErr = err,
                        ![t].call.body = IF r.kind = "err" THEN NoBody ELSE DeferredClose(sw.body),
                        ![t].call.err = IF err # NilError THEN Wrap(errFailedRequestFormat, err)
                                        ELSE NilError,
                        ![t].call.res = IF err # NilError THEN NilResult
                                        ELSE Result(type, r.body.val)]
    /\ UNCHANGED <<cli, call, intSize, dec>>

\* One client, constructed, and two goroutines about to call it.
ConcInit ==
    /\ \E token \in {"opencollector", "bad_token"},
          opts \in {<<>>, <<WithEndpoint(<<"http", "://", "127.0.0.1:8080">>)>>,
                    <<WithEndpoint(<<":", "bad">>)>>} :
         cli = NewClient(token, opts).cli
    /\ call = NoCall
    /\ intSize = 64
    /\ dec = NoDec
    /\ calls = NoCalls

ConcNext ==
    \/ \E t \in DOMAIN calls : CallBegin(t)
    \/ \E t \in DOMAIN calls : CallSend(t)
    \/ \E t \in DOMAIN calls : CallReceive(t)

ConcSpec == ConcInit /\ [][ConcNext]_vars

\* ------------------------------------------------------------ properties
PublicOps == {"GetAddress", "GetCity", "GetCorporation", "GetWhoami", "GetHolidays",
              "GetHolidaysByYear", "GetHolidaysByPeriod", "GetNormalizeAddress",
              "GetBusinessDays"}

MappedStatuses == {401, 402, 403, 404, 405, 500}

\* The sentinel the error table assigns to a mapped status.
SentinelOf(status) ==
    CASE status = 401 -> ErrUnauthorized
      [] status = 402 -> ErrPaymentRequired
      [] status = 403 -> ErrForbidden
      [] status = 404 -> ErrNotFound
      [] status = 405 -> ErrMethodNotAllowed
      [] status = 500 -> ErrInternalServerError

Responded == call.op \in PublicOps /\ call.out.kind = "resp"

\* C1: when the transport answers an operation with status 401, 402, 403,
\* 404, 405 or 500, the operation returns a nil result and an error that
\* errors.Is matches with the sentinel of that status and with no other
\* sentinel.
C1_MappedStatusSentinel ==
    (Responded /\ call.out.status \in MappedStatuses) =>
        /\ call.res = NilResult
        /\ call.err # NilError
        /\ \A e \in Sentinels : Is(call.err, e) <=> e = SentinelOf(call.out.status)

C1_Witness ==
    /\ call.op = "GetBusinessDays"
    /\ call.out.kind = "resp"
    /\ call.out.status = 402
    /\ Is(call.err, ErrPaymentRequired)

\* The unregistered-status error of one operation call, as a function of the
\* status code alone.
UnregisteredFor(status) ==
    Wrap(errFailedRequestFormat, <<[k |-> errUnregisteredFormat, code |-> status]>>)

HasLayer(err, k) == \E i \in 1..Len(err) : err[i].k = k

\* C3: a failed transport call comes back from the dispatcher as a Timeout
\* error exactly when the cause is a context deadline exceeded or reports
\* itself as a timeout; every other failure comes back as the generic
\* transport error; both wrap the cause and neither is a sentinel.
C3_TimeoutClassification ==
    (call.op \in PublicOps /\ call.out.kind = "err") =>
        LET timeout == IsDeadlineExceeded(call.out.cause) \/ IsTimeout(call.out.cause)
        IN  /\ HasLayer(call.dispErr, "kenall: request timeout") <=> timeout
            /\ HasLayer(call.dispErr, errFailedDoFormat) <=> ~timeout
            /\ call.dispErr[Len(call.dispErr)] = Layer(call.out.cause)
            /\ \A e \in Sentinels : ~Is(call.dispErr, e) /\ ~Is(call.err, e)

C3_Witness ==
    /\ call.op = "GetAddress"
    /\ call.out.kind = "err"
    /\ call.out.cause = "i/o timeout"
    /\ HasLayer(call.dispErr, "kenall: request timeout")


CodeOps == {"GetAddress", "GetCity", "GetCorporation"}

RequiredLen(op) ==
    CASE op = "GetAddress" -> 7
      [] op = "GetCity" -> 2
      [] op = "GetCorporation" -> 13

PathOf(op) ==
    CASE op = "GetAddress" -> "/postalcode/"
      [] op = "GetCity" -> "/cities/"
      [] op = "GetCorporation" -> "/houjinbangou/"

AllDigits(str) == \A i \in 1..Len(str) : str[i] \in Digits

WellShaped(op, str) == AllDigits(str) /\ Len(str) = RequiredLen(op)

\* C4: GetAddress, GetCity and GetCorporation answer InvalidArgument with a
\* nil result, and hand nothing to the transport, for every input that is
\* not all ASCII digits or not of length 7, 2 and 13 respectively.
C4_ShapeValidation ==
    (call.op \in CodeOps /\ ~WellShaped(call.op, call.arg)) =>
        /\ call.err = ErrInvalidArgument
        /\ call.res = NilResult
        /\ call.requests = <<>>

\* C5: every string of exactly 7 (2, 13) digits passes the validation of
\* GetAddress (GetCity, GetCorporation), is never refused as InvalidArgument,
\* and is requested by a GET of the endpoint followed by the path and the
\* string as it was given.
C5_DigitCodesAccepted ==
    (call.op \in CodeOps /\ WellShaped(call.op, call.arg)) =>
        /\ call.validated
        /\ ~Is(call.err, ErrInvalidArgument)
        /\ \A i \in 1..Len(call.requests) :
              /\ call.requests[i].method = "GET"
              /\ call.requests[i].url = cli.Endpoint \o <<PathOf(call.op)>> \o call.arg

AuthorizationCount(h) == Cardinality({j \in 1..Len(h) : h[j][1] = "Authorization"})

\* C6: every request handed to the transport carries exactly one
\* Authorization header, "token " followed by the client's token; nothing is
\* dispatched without it; and a response to a request whose token the
\* service does not accept surfaces as Unauthorized.
C6_AuthorizationHeader ==
    call.op \in PublicOps =>
        /\ \A i \in 1..Len(call.requests) :
              /\ AuthorizationCount(call.requests[i].header) = 1
              /\ HeaderGet(call.requests[i].header, "Authorization") = <<"token ", cli.token>>
        /\ call.dispatched => call.requests # <<>>
        /\ (call.out.kind = "resp" /\ cli.token # "opencollector") =>
              Is(call.err, ErrUnauthorized)

C6_Witness ==
    /\ call.op = "GetCity"
    /\ call.out.kind = "resp"
    /\ cli.token = "bad_token"
    /\ Len(call.requests) = 1
    /\ Is(call.err, ErrUnauthorized)

LastIndex(opts, kind) ==
    LET idx == {i \in 1..Len(opts) : opts[i].opt = kind}
    IN  IF idx = {} THEN 0 ELSE CHOOSE i \in idx : \A j \in idx : j <= i

\* C7: NewClient refuses the empty token with ErrInvalidArgument and no
\* client; for any other token it returns no error and a client with that
\* token, whose Endpoint and HTTPClient are the defaults unless an option
\* sets them, the last option of a kind deciding.
C7_NewClient ==
    call.op = "NewClient" =>
        IF call.token = ""
        THEN call.err = ErrInvalidArgument /\ cli = NoClient
        ELSE LET e == LastIndex(call.opts, "withEndpoint")
                 h == LastIndex(call.opts, "withHTTPClient")
             IN  /\ call.err = NilError
                 /\ cli.token = call.token
                 /\ cli.Endpoint = IF e = 0 THEN Endpoint ELSE call.opts[e].endpoint
                 /\ cli.HTTPClient = IF h = 0 THEN "http.DefaultClient" ELSE call.opts[h].client

C7_Witness ==
    /\ call.op = "NewClient"
    /\ call.token = "opencollector"
    /\ Len(call.opts) = 2
    /\ call.opts[1].opt = "withEndpoint"
    /\ call.opts[2].opt = "withEndpoint"
    /\ call.opts[1] # call.opts[2]
    /\ cli.Endpoint = call.opts[2].endpoint

Count(log, e) == Cardinality({i \in 1..Len(log) : log[i] = e})

\* C8: whenever the transport returned a response, the dispatcher has read
\* the body to its end and then closed it, each exactly once, the read
\* before the close, on every branch; without a response there is no body.
C8_DrainThenClose ==
    call.op \in PublicOps =>
        IF call.out.kind = "resp"
        THEN LET log == call.body.log
                 n   == Len(log)
             IN  /\ Count(log, "Copy") = 1
                 /\ Count(log, "Close") = 1
                 /\ n >= 2
                 /\ log[n - 1] = "Copy"
                 /\ log[n] = "Close"
                 /\ call.body.pos = call.body.len
                 /\ call.body.closed
        ELSE call.body = NoBody

C8_Witness ==
    /\ call.op = "GetHolidays"
    /\ call.out.kind = "resp"
    /\ call.out.status = 200
    /\ call.out.body.kind = "malformed"
    /\ call.out.used < call.out.body.len
    /\ HasLayer(call.err, errFailedDecodeFormat)
    /\ call.body.log = <<"Decode", "Copy", "Close">>

\* C9: a call of a public operation invokes the transport at most once: not
\* at all when the validation or the construction of the request fails, once
\* otherwise, whatever the outcome of that one attempt.
C9_AtMostOneAttempt ==
    call.op \in PublicOps =>
        /\ Len(call.requests) <= 1
        /\ (Len(call.requests) = 0) <=>
              (call.err = ErrInvalidArgument
               \/ HasLayer(call.err, errFailedGenerateRequestFormat))

C9_Witness ==
    /\ call.op = "GetNormalizeAddress"
    /\ call.out.kind = "err"
    /\ call.out.cause = "connection refused"
    /\ Len(call.requests) = 1
    /\ call.err # NilError

\* The kinds of the error taxonomy an error matches: a sentinel by errors.Is,
\* a formatted kind by the layer that fmt.Errorf made.
TaxonomyKinds(err) ==
    {e[1].k : e \in {x \in Sentinels : Is(err, x)}}
    \cup {k \in {errUnregisteredFormat, "kenall: request timeout", errFailedDoFormat,
                 errFailedDecodeFormat} : HasLayer(err, k)}

\* The taxonomy with the request-generation failure added.
AmendedKinds(err) ==
    TaxonomyKinds(err)
    \cup {k \in {errFailedGenerateRequestFormat} : HasLayer(err, k)}

\* C10 as stated: every non-nil error of an operation is of exactly one of
\* the eleven kinds InvalidArgument, the six status sentinels,
\* UnregisteredStatus, Timeout, TransportFailure and DecodeFailure.
C10_ElevenKinds ==
    (call.op \in PublicOps /\ call.err # NilError) =>
        Cardinality(TaxonomyKinds(call.err)) = 1

\* C10, amended: every non-nil error of an operation is of exactly one of
\* the eleven kinds or is a request-generation failure, the kind a nil
\* context or an unparsable endpoint produces.
C10_TwelveKinds ==
    (call.op \in PublicOps /\ call.err # NilError) =>
        Cardinality(AmendedKinds(call.err)) = 1

C10_Witness ==
    /\ call.op = "GetWhoami"
    /\ call.ctx = "nil"
    /\ call.requests = <<>>
    /\ AmendedKinds(call.err) = {errFailedGenerateRequestFormat}

\* ----------------------------------------------------- decoder properties
\* C11: decoding into a zero-value NullString, a JSON null leaves it unset
\* (Valid false, String empty) without error; any JSON string, the empty one
\* included, makes it Valid with String equal to that string; a value of any
\* other JSON type is a decode error and Valid stays false.
C11_NullStringDecode ==
    (dec.type = "NullString" /\ dec.recv = NullString(<<>>, FALSE)) =>
        CASE dec.data.t = "null" ->
                 dec.err = NilError /\ dec.val = NullString(<<>>, FALSE)
          [] dec.data.t = "string" ->
                 dec.err = NilError /\ dec.val.Valid /\ dec.val.String = dec.data.s
          [] OTHER ->
                 /\ dec.err # NilError
                 /\ HasLayer(dec.err, "kenall: failed to parse NullString")
                 /\ ~dec.val.Valid

C11_Witness ==
    /\ dec.type = "NullString"
    /\ dec.recv = NullString(<<>>, FALSE)
    /\ dec.data = JSONString(<<>>)
    /\ dec.val = NullString(<<>>, TRUE)

\* The calendar dates among the tried years.
CalendarDates ==
    {dt \in {Date(y, m, d) : y \in {1, 2020, 2021, 2022}, m \in 1..12, d \in 1..31} :
        dt.d <= daysIn(dt.m, dt.y)}

IsDateText(s) == \E dt \in CalendarDates : s = FormatDate(dt)

DateOfText(s) == CHOOSE dt \in CalendarDates : s = FormatDate(dt)

\* C12: decoding into a zero-value Version, a JSON null leaves the zero date
\* without error; a JSON string that is the YYYY-MM-DD form of a calendar
\* date yields exactly that date at 00:00 UTC; every other input is a decode
\* error that wraps the parse failure and leaves the value zero.
C12_VersionDecode ==
    (dec.type = "Version" /\ dec.recv = ZeroTime) =>
        CASE dec.data.t = "null" ->
                 dec.err = NilError /\ dec.val = ZeroTime
          [] dec.data.t = "string" /\ IsDateText(dec.data.s) ->
                 dec.err = NilError /\ dec.val = Time(DateOfText(dec.data.s), 0, UTC)
          [] OTHER ->
                 /\ dec.err # NilError
                 /\ HasLayer(dec.err, "*time.ParseError")
                 /\ dec.val = ZeroTime

C12_Witness ==
    /\ dec.type = "Version"
    /\ dec.recv = ZeroTime
    /\ dec.data = JSONString(FormatDate(Date(2020, 2, 29)))
    /\ dec.err = NilError
    /\ dec.val = Time(Date(2020, 2, 29), 0, UTC)

\* The address texts that are literals of each family, the canonical text of
\* the address they denote, and when a text resolves in the family a wire
\* type names: as a literal of that family, or as a host name the resolver
\* answers in that family.
IPv4Texts == {<<"127.0.0.1">>, <<"::ffff:127.0.0.1">>}
IPv6Texts == {<<"::1">>, <<"0:0:0:0:0:0:0:1">>}
HostNames == {<<"wrong">>, <<"localhost">>}

ResolvesIn(address, type, dns) ==
    \/ type = <<"v", "4">> /\ (address \in IPv4Texts \/ (address \in HostNames /\ dns \in {"A", "both"}))
    \/ type = <<"v", "6">> /\ (address \in IPv6Texts \/ (address \in HostNames /\ dns \in {"AAAA", "both"}))

Canonical(type) == IF type = <<"v", "4">> THEN <<"127.0.0.1">> ELSE <<"::1">>

\* C13: decoding a RemoteAddress succeeds only when type is "v4" or "v6" and
\* address resolves in the family the type names; on success Network() is
\* "ip" and String() is the canonical address; every other type and every
\* address that does not resolve in the named family is a decode error.
C13_RemoteAddressDecode ==
    (dec.type = "RemoteAddress" /\ dec.recv = ZeroRemoteAddress /\ dec.data.t = "object") =>
        LET ok == dec.err = NilError /\ ~dec.panicked
        IN  /\ ok <=> ResolvesIn(dec.val.Address, dec.val.Type, dec.dns)
            /\ ok => /\ RemoteAddressNetwork(dec.val) = <<"ip">>
                     /\ RemoteAddressString(dec.val) = Canonical(dec.val.Type)
            /\ ~ok => dec.err # NilError

\* A v4 record without an address decodes without error into an address
\* that holds no IP.
C13_EmptyAddressAccepted ==
    /\ dec.type = "RemoteAddress"
    /\ dec.recv = ZeroRemoteAddress
    /\ dec.data = JSONObject(<<<<"type", JSONString(<<"v", "4">>)>>,
                               <<"address", JSONString(<<>>)>>>>)
    /\ dec.err = NilError
    /\ dec.val.IPAddr = IPAddr(NilIP)
    /\ RemoteAddressString(dec.val) = <<>>

\* C13 holds for every record whose address is not empty.
C13_NonEmptyAddress ==
    (dec.type = "RemoteAddress" /\ dec.recv = ZeroRemoteAddress /\ dec.data.t = "object"
        /\ dec.val.Address # <<>>) => C13_RemoteAddressDecode

\* The day of the week of a calendar date by Zeller's congruence, 0 = Sunday.
ZellerWeekday(y, m, d) ==
    LET mm == IF m < 3 THEN m + 12 ELSE m
        yy == IF m < 3 THEN y - 1 ELSE y
        k  == yy % 100
        j  == yy \div 100
        h  == (d + ((13 * (mm + 1)) \div 5) + k + (k \div 4) + (j \div 4) + 5 * j) % 7
    IN  (h + 6) % 7

DayNames ==
    <<<<"s", "u", "n", "d", "a", "y">>, <<"m", "o", "n", "d", "a", "y">>,
      <<"t", "u", "e", "s", "d", "a", "y">>, <<"w", "e", "d", "n", "e", "s", "d", "a", "y">>,
      <<"t", "h", "u", "r", "s", "d", "a", "y">>, <<"f", "r", "i", "d", "a", "y">>,
      <<"s", "a", "t", "u", "r", "d", "a", "y">>>>

Encoded == dec.type = "Holiday" /\ dec.op = "MarshalJSON"

\* C14: encoding any Holiday emits title, date as the YYYY-MM-DD form of the
\* stored time, day_of_week as the weekday number (0 = Sunday .. 6 =
\* Saturday) of that same date and day_of_week_text as its lowercase English
\* name; 2022-01-01 gives 6 and "saturday", the zero-value Holiday gives
\* 0001-01-01, 1 and "monday".
C14_HolidayEncode ==
    Encoded =>
        LET h == dec.recv
            m == dec.out.m
            w == ZellerWeekday(h.Time.y, h.Time.m, h.Time.d)
        IN  /\ dec.err = NilError
            /\ dec.out.t = "object"
            /\ <<m[1][1], m[2][1], m[3][1], m[4][1]>>
                  = <<"title", "date", "day_of_week", "day_of_week_text">>
            /\ Len(m) = 4
            /\ m[1][2] = JSONString(h.Title)
            /\ m[2][2].t = "string" /\ Len(m[2][2].s) = 10
            /\ Parse(<<>>, m[2][2].s, <<>>) = [err |-> "nil",
                                               date |-> Date(h.Time.y, h.Time.m, h.Time.d)]
            /\ m[3][2] = JSONNumber(w)
            /\ m[4][2] = JSONString(DayNames[w + 1])
            /\ (h.Time.y = 2022 /\ h.Time.m = 1 /\ h.Time.d = 1) =>
                  m[3][2].n = 6 /\ m[4][2].s = <<"s", "a", "t", "u", "r", "d", "a", "y">>
            /\ h = ZeroHoliday =>
                  /\ m[1][2].s = <<>>
                  /\ m[2][2].s = <<"0", "0", "0", "1", "-", "0", "1", "-", "0", "1">>
                  /\ m[3][2].n = 1
                  /\ m[4][2].s = <<"m", "o", "n", "d", "a", "y">>

C14_Witness ==
    /\ Encoded
    /\ dec.recv = Holiday(<<"a">>, Time(Date(2022, 1, 1), 0, jst))
    /\ dec.out.m[2][2] = JSONString(<<"2", "0", "2", "2", "-", "0", "1", "-", "0", "1">>)
    /\ dec.out.m[3][2] = JSONNumber(6)

\* The value a wire record carries under a key: that of its last member with
\* the key, null when there is none.
WireField(m, key) ==
    LET idx == {i \in 1..Len(m) : m[i][1] = key}
    IN  IF idx = {} THEN JSONNull ELSE m[CHOOSE i \in idx : \A j \in idx : j <= i][2]

StringOrAbsent(v) == v.t \in {"string", "null"}

HolidayDecoded == dec.type = "Holiday" /\ dec.op = "UnmarshalJSON" /\ dec.data.t = "object"

\* What the wire title and date alone prescribe: the title and midnight of
\* the date in UTC+9, or a decode error.
TitleAndDateDecide ==
    LET title == WireField(dec.data.m, "title")
        date  == WireField(dec.data.m, "date")
    IN  IF date.t = "string" /\ IsDateText(date.s) /\ StringOrAbsent(title)
        THEN /\ dec.err = NilError
             /\ dec.val = Holiday(title.s, Time(DateOfText(date.s), 0, 9 * 60 * 60))
        ELSE dec.err # NilError

Trimmed(s) ==
    LET idx == {i \in 1..Len(s) : s[i] \notin {" ", "\t", "\n"}}
    IN  IF idx = {} THEN <<>>
        ELSE SubSeq(s, CHOOSE i \in idx : \A j \in idx : i <= j,
                       CHOOSE i \in idx : \A j \in idx : j <= i)

Normalizing == call.op = "GetNormalizeAddress"

\* C16: GetNormalizeAddress trims the white space around its address; an
\* empty or all-white-space address returns ErrInvalidArgument and a nil
\* result without any request; every other address proceeds with the
\* trimmed text.
C16_TrimThenValidate ==
    Normalizing =>
        IF Trimmed(call.arg) = <<>>
        THEN /\ call.err = ErrInvalidArgument
             /\ call.res = NilResult
             /\ call.requests = <<>>
             /\ ~call.validated /\ ~call.dispatched
        ELSE /\ call.validated
             /\ call.err # ErrInvalidArgument
             /\ \A i \in 1..Len(call.requests) :
                  /\ call.requests[i].method = "GET"
                  /\ call.requests[i].url =
                       cli.Endpoint \o <<"/postalcode/", "?", "t", "=">> \o Trimmed(call.arg)

C16_Witness ==
    /\ Normalizing
    /\ call.arg = <<" ", "a", " ">>
    /\ Len(call.requests) = 1
    /\ call.requests[1].url = cli.Endpoint \o <<"/postalcode/", "?", "t", "=", "a">>
    /\ call.res.type = "GetNormalizeAddressResponse"

\* C17: every request GetNormalizeAddress sends is a GET whose query the
\* service decodes to the single parameter t equal to the trimmed text,
\* also when the text holds "&", "#", "+", "%", "=" or inner spaces, with no
\* other parameter and no fragment.
C17_QueryCarriesText ==
    Normalizing =>
        \A i \in 1..Len(call.requests) :
            /\ call.requests[i].method = "GET"
            /\ ServerQuery(call.requests[i].url) = <<<<<<"t">>, Trimmed(call.arg)>>>>
            /\ FirstIndex(call.requests[i].url, "#") = 0

\* The query carries the text when it holds none of the characters that
\* have a meaning in a URL.
C17_PlainTextCarried ==
    (/\ Normalizing
     /\ \A i \in 1..Len(call.arg) : call.arg[i] \notin {"&", "#", "+", "%"}
     /\ \A j \in 1..Len(Trimmed(call.arg)) : Trimmed(call.arg)[j] # " ")
    => C17_QueryCarriesText

\* The calendar date a ten-character YYYY-MM-DD text names.
IsDateOf(text, date) ==
    /\ Len(text) = 10
    /\ Parse(<<>>, text, <<>>) = [err |-> "nil", date |-> date]

OK200 == call.out.kind = "resp" /\ call.out.status = StatusOK /\ call.out.body.kind = "value"

\* C18: GetBusinessDays returns ErrInvalidArgument and a nil result without
\* any request when the date is the zero value; otherwise every request it
\* sends carries date=YYYY-MM-DD of that date and, on a 200 response, the
\* BusinessDay returned has exactly the input date as its Time and the
\* boolean result of the response as LegalHoliday.
C18_BusinessDays ==
    call.op = "GetBusinessDays" =>
        IF call.date = Date(1, 1, 1)
        THEN /\ call.err = ErrInvalidArgument
             /\ call.res = NilResult
             /\ call.requests = <<>> /\ ~call.dispatched
        ELSE /\ call.err # ErrInvalidArgument
             /\ \A i \in 1..Len(call.requests) :
                  /\ call.requests[i].method = "GET"
                  /\ Len(ServerQuery(call.requests[i].url)) = 1
                  /\ ServerQuery(call.requests[i].url)[1][1] = <<"date">>
                  /\ IsDateOf(ServerQuery(call.requests[i].url)[1][2], call.date)
             /\ (call.requests # <<>> /\ OK200) =>
                  /\ call.err = NilError
                  /\ call.res.type = "GetBusinessDaysResponse"
                  /\ call.res.time = call.date
                  /\ call.res.val = call.out.body.val

C18_Witness ==
    /\ call.op = "GetBusinessDays"
    /\ call.date = Date(2022, 12, 31)
    /\ Len(call.requests) = 1
    /\ OK200
    /\ call.out.body.val = 1
    /\ call.res.time = Date(2022, 12, 31)
    /\ call.res.val = 1

HolidayOps == {"GetHolidays", "GetHolidaysByYear", "GetHolidaysByPeriod"}

\* C19: a 200 response whose data list is empty, to a holidays query by year
\* or by period, gives a non-nil response with zero holidays and a nil
\* error, never ErrNotFound.
C19_EmptyListIsNoError ==
    (call.op \in HolidayOps /\ call.requests # <<>> /\ OK200 /\ call.out.body.val = 0) =>
        /\ call.err = NilError
        /\ call.res # NilResult
        /\ call.res.type = "GetHolidaysResponse"
        /\ call.res.val = 0

C19_Witness ==
    /\ call.op = "GetHolidaysByYear"
    /\ call.year = 2022
    /\ call.requests # <<>>
    /\ OK200
    /\ call.out.body.val = 0
    /\ call.res = Result("GetHolidaysResponse", 0)
    /\ call.err = NilError

\* The integer a decimal text denotes; a sign may lead it.
RECURSIVE DecimalValue(_)
DecimalValue(text) ==
    IF text = <<>> THEN 0
    ELSE IF Head(text) = "-" THEN 0 - DecimalValue(Tail(text))
    ELSE DecimalValue(SubSeq(text, 1, Len(text) - 1)) * 10 + DigitVal(text[Len(text)])

\* The decimal form of an integer: digits after an optional minus sign, no
\* leading zero but for zero itself.
IsDecimalOf(text, n) ==
    LET digits == IF text # <<>> /\ Head(text) = "-" THEN Tail(text) ELSE text
    IN  /\ digits # <<>>
        /\ \A i \in 1..Len(digits) : digits[i] \in Digits
        /\ (Len(digits) > 1 => digits[1] # "0")
        /\ DecimalValue(text) = n
        /\ (n >= 0 => digits = text)

\* C20: GetHolidays sends GET /holidays with no query parameter,
\* GetHolidaysByYear with exactly the parameter year in decimal,
\* GetHolidaysByPeriod with exactly from and to in YYYY-MM-DD form; none
\* validates its input, whatever the year and even when from is later than
\* to, and none returns ErrInvalidArgument.
C20_HolidayQueries ==
    call.op \in HolidayOps =>
        /\ call.validated
        /\ call.err # ErrInvalidArgument
        /\ \A i \in 1..Len(call.requests) :
             LET url == call.requests[i].url
                 q   == ServerQuery(url)
             IN  /\ call.requests[i].method = "GET"
                 /\ FirstIndex(url, "#") = 0
                 /\ Len(url) >= Len(cli.Endpoint) + 2
                 /\ SubSeq(url, 1, Len(cli.Endpoint) + 2) = cli.Endpoint \o <<"/holidays", "?">>
                 /\ call.op = "GetHolidays" => q = <<>>
                 /\ call.op = "GetHolidaysByYear" =>
                      /\ Len(q) = 1
                      /\ q[1][1] = <<"year">>
                      /\ IsDecimalOf(q[1][2], call.year)
                 /\ call.op = "GetHolidaysByPeriod" =>
                      /\ Len(q) = 2
                      /\ q[1][1] = <<"from">> /\ IsDateOf(q[1][2], call.from)
                      /\ q[2][1] = <<"to">> /\ IsDateOf(q[2][2], call.to)

C20_Witness ==
    /\ call.op = "GetHolidaysByPeriod"
    /\ call.from = Date(2022, 12, 31)
    /\ call.to = Date(2022, 1, 1)
    /\ Len(call.requests) = 1
    /\ call.err = NilError

\* --------------------------------------------- results, errors, ordering
Undecodable ==
    /\ call.op \in PublicOps
    /\ call.out.kind = "resp" /\ call.out.status = 200
    /\ call.out.body.kind \in {"empty", "malformed", "badfield"}

\* C21: a 200 response whose body cannot be decoded into the target shape,
\* for malformed JSON or for a field whose own decoder refuses its value,
\* gives a nil result and a decode error that wraps the cause; the error
\* matches no status sentinel and is neither the unregistered-status error
\* nor a timeout or transport error.
C21_DecodeFailure ==
    Undecodable =>
        /\ call.res = NilResult
        /\ HasLayer(call.err, "kenall: failed to decode to response")
        /\ \E i \in 1..Len(call.err) :
             /\ call.err[i].k = "kenall: failed to decode to response"
             /\ i < Len(call.err)
             /\ call.err[i + 1].k \in {"EOF", "*json.SyntaxError", "kenall: failed to parse"}
        /\ \A e \in Sentinels : ~Is(call.err, e)
        /\ \A k \in {errUnregisteredFormat, "kenall: request timeout", errFailedDoFormat} :
             ~HasLayer(call.err, k)

C21_Witness ==
    /\ Undecodable
    /\ call.op = "GetAddress"
    /\ call.out.body.kind = "badfield"
    /\ call.res = NilResult
    /\ HasLayer(call.err, "parse error")

\* The dispatcher ran for this call and came back.
Dispatched == call.op \in PublicOps /\ call.dispatched /\ ~call.panicked

\* C23: an error of the dispatcher reaches the caller of every public
\* operation unchanged in kind: a nil error from the operation implies the
\* dispatcher succeeded, and a dispatcher error is returned under one layer
\* of call-site context with the dispatcher's own chain, cause included,
\* below it, so that it matches exactly the sentinels the dispatcher's
\* error matches.
C23_DispatcherErrorKept ==
    Dispatched =>
        /\ call.err = NilError <=> call.dispErr = NilError
        /\ call.dispErr # NilError =>
             /\ Len(call.err) = Len(call.dispErr) + 1
             /\ Head(call.err) = Layer(errFailedRequestFormat)
             /\ Tail(call.err) = call.dispErr
             /\ \A e \in Sentinels : Is(call.err, e) <=> Is(call.dispErr, e)
             /\ call.res = NilResult

C23_Witness ==
    /\ Dispatched
    /\ call.op = "GetBusinessDays"
    /\ call.dispErr = Wrap(errFailedDoFormat, <<Layer("*url.Error"), Layer("connection refused")>>)
    /\ call.err = Wrap(errFailedRequestFormat, call.dispErr)

\* The argument of the call is one its operation's validation refuses.
Refused ==
    CASE call.op \in CodeOps -> invalidCode(call.arg, RequiredLen(call.op), intSize)
      [] call.op = "GetNormalizeAddress" -> Trimmed(call.arg) = <<>>
      [] call.op = "GetBusinessDays" -> IsZero(call.date)
      [] OTHER -> FALSE

\* No request can be made: the context is nil or the endpoint does not parse.
Unbuildable == call.ctx = "nil" \/ ParseURL(cli.Endpoint).err # "nil"

NothingSent ==
    /\ call.requests = <<>>
    /\ ~call.dispatched
    /\ call.out = NoOutcome
    /\ call.res = NilResult

Returned == call.op \in PublicOps /\ ~call.panicked

\* C25: every public operation that returns gives either a non-nil result
\* with a nil error or a nil result with a non-nil error, never both nil and
\* never both non-nil; a response the decoder had begun to fill before it
\* failed is not handed to the caller.
C25_ResultXorError ==
    Returned =>
        /\ call.res # NilResult <=> call.err = NilError
        /\ (Undecodable /\ call.body.pos > 0) => call.res = NilResult /\ call.err # NilError

C25_Witness ==
    /\ Returned
    /\ Undecodable
    /\ call.body.pos > 0
    /\ call.res = NilResult
    /\ call.err # NilError

\* The request the dispatcher would have sent for the same call on a client
\* that differs from cli in its token alone.
RequestUnder(token) ==
    sendRequest([cli EXCEPT !.token = token],
                [call.requests[1] EXCEPT !.header = <<>>], call.out).requests[1]

Mentions(text, token) == \E i \in 1..Len(text) : text[i] = token

\* C30: the token reaches a request through the Authorization header alone:
\* the same operation with the same arguments on a client with another token
\* sends a request with the same method, URL and query string, differing in
\* the value of that header only; the token is no part of the URL and no part
\* of the text of an error the operation returns.
C30_TokenInHeaderOnly ==
    call.op \in PublicOps =>
        /\ ~Mentions(Msg(call.err), cli.token)
        /\ call.requests # <<>> =>
             LET r == call.requests[1]
             IN  /\ ~Mentions(r.url, cli.token)
                 /\ \A t \in Tokens \ {""} :
                      /\ RequestUnder(t).method = r.method
                      /\ RequestUnder(t).url = r.url
                      /\ RequestUnder(t).ctx = r.ctx
                      /\ RequestUnder(t).header = <<<<"Authorization", <<"token ", t>>>>>>
                 /\ r.header = <<<<"Authorization", <<"token ", cli.token>>>>>>

C30_Witness ==
    /\ call.op = "GetHolidaysByYear"
    /\ cli.token = "bad_token"
    /\ call.requests # <<>>
    /\ RequestUnder("opencollector").url = call.requests[1].url
    /\ RequestUnder("opencollector").header # call.requests[1].header
    /\ call.err # NilError

\* ------------------------------------------------ receivers, round trips
NullDecoded ==
    /\ dec.type \in {"Version", "NullString"}
    /\ dec.op = "UnmarshalJSON"
    /\ dec.data = JSONNull

\* C27: decoding the JSON null into a Version or a NullString writes nothing
\* to the receiver and reports no error: a Version that held a date holds
\* the same date afterwards, a NullString that was set holds the same
\* string with Valid still true.
C27_NullLeavesReceiver ==
    NullDecoded =>
        /\ dec.val = dec.recv
        /\ dec.err = NilError

C27_Witness ==
    /\ NullDecoded
    /\ dec.type = "Version"
    /\ dec.recv = Time(Date(2020, 11, 30), 0, UTC)
    /\ dec.val = dec.recv

C27_WitnessNullString ==
    /\ NullDecoded
    /\ dec.type = "NullString"
    /\ dec.recv = NullString(<<"a">>, TRUE)
    /\ dec.val = NullString(<<"a">>, TRUE)

HolidayDecodeFailed ==
    dec.type = "Holiday" /\ dec.op = "UnmarshalJSON" /\ dec.err # NilError

\* C28: a Holiday decode that fails leaves its receiver as it was: neither
\* Title nor Time is modified when the JSON is malformed, the title is not a
\* string or the date is not in YYYY-MM-DD form.
C28_FailedDecodeLeavesReceiver == HolidayDecodeFailed => dec.val = dec.recv

\* What does hold of a failed Holiday decode: Title is kept, and Time is kept
\* when the failure is json.Unmarshal's; a date that does not parse leaves
\* the zero time in Time.
C28_FailedDecodeKeepsTitle ==
    HolidayDecodeFailed =>
        /\ dec.val.Title = dec.recv.Title
        /\ dec.val.Time \in {dec.recv.Time, ZeroTime}
        /\ ~HasLayer(dec.err, "*time.ParseError") => dec.val = dec.recv

\* The Holiday's Time is midnight on the wall clock of UTC+9.
MidnightJST(h) == h.Time.hour = 0 /\ h.Time.offset = 9 * 60 * 60

EncodedThenDecoded ==
    dec.type = "Holiday" /\ dec.op = "EncodeDecode" /\ MidnightJST(dec.recv)

\* The wire record carries all four members, and its day_of_week and
\* day_of_week_text are those of its date.
ConsistentRecord(data) ==
    /\ data.t = "object"
    /\ \A k \in {"title", "date", "day_of_week_text"} : WireField(data.m, k).t = "string"
    /\ WireField(data.m, "day_of_week").t = "number"
    /\ IsDateText(WireField(data.m, "date").s)
    /\ LET d == DateOfText(WireField(data.m, "date").s)
           w == ZellerWeekday(d.y, d.m, d.d)
       IN  /\ WireField(data.m, "day_of_week").n = w
           /\ WireField(data.m, "day_of_week_text").s = DayNames[w + 1]

DecodedThenEncoded ==
    dec.type = "Holiday" /\ dec.op = "DecodeEncode" /\ ConsistentRecord(dec.data)

\* A decode followed by an encode gives back the four members of the record.
ReEncodedSame ==
    /\ dec.err = NilError
    /\ dec.out.t = "object"
    /\ \A k \in {"title", "date", "day_of_week", "day_of_week_text"} :
         WireField(dec.out.m, k) = WireField(dec.data.m, k)

C29_WitnessReEncoded ==
    /\ DecodedThenEncoded
    /\ WireField(dec.data.m, "date").s = FormatDate(Date(2020, 2, 29))
    /\ ReEncodedSame

WhoamiSucceeded == call.op = "GetWhoami" /\ call.err = NilError /\ ~call.panicked

\* The response's RemoteAddress is a non-nil pointer to a value whose IPAddr
\* holds an IP, so that Network() and String() have something to read.
RemoteAddressResolved ==
    /\ ~call.res.remote.nil
    /\ ~call.res.remote.ra.IPAddr.nil
    /\ call.res.remote.ra.IPAddr.IP # NilIP

\* C26: whenever GetWhoami returns a nil error, the RemoteAddress of the
\* response is non-nil and carries a resolved IP address, for every 200 body
\* that decodes, {} and {"remote_addr":null} included.
C26_WhoamiRemoteAddress == WhoamiSucceeded => call.res # NilResult /\ RemoteAddressResolved

\* What does hold: the RemoteAddress is resolved when the body carries a
\* remote_addr object, and is the nil pointer when the member is absent or
\* null.
C26_WhoamiRemoteAddressPresent ==
    WhoamiSucceeded =>
        /\ call.res # NilResult
        /\ IF call.wire # <<>> /\ call.wire[1][2].t = "object"
           THEN RemoteAddressResolved /\ RemoteAddressNetwork(call.res.remote.ra) = <<"ip">>
           ELSE call.res.remote.nil

\* ------------------------------------------------------- concurrent calls
\* The call as the operation computes it when it runs alone on the client,
\* from its own arguments and the outcome of its own request.
Alone(t) ==
    LET c == calls[t].call
    IN  IF c.op = "GetCity"
        THEN IF invalidCode(c.arg, PrefectureCodeLen, intSize)
             THEN Rejected("GetCity", c.ctx, c.arg)
             ELSE requestAndSend("GetCity", "GetCityResponse", c.ctx, c.arg,
                                 cli.Endpoint \o <<"/cities/">> \o c.arg, cli, calls[t].o)
        ELSE getHolidays("GetHolidays", c.ctx, <<>>, cli, calls[t].o)

Finished(t) == calls[t].pc = "done"

OwnOutcomeOnly ==
    \A t \in DOMAIN calls :
        Finished(t) =>
            /\ calls[t].call.res = Alone(t).res
            /\ calls[t].call.err = Alone(t).err
            /\ calls[t].call.requests = Alone(t).requests
            /\ calls[t].call.panicked = Alone(t).panicked

\* C22: no operation writes to the client after construction: in every
\* interleaving of two goroutines' calls on one client no step changes token,
\* Endpoint or HTTPClient, and each finished call has the result, the error
\* and the request it has when it runs alone with the same arguments and the
\* same response, whatever the other goroutine's call is doing.
C22_ClientReadOnly == [][cli' = cli]_vars /\ []OwnOutcomeOnly

C22_Witness ==
    /\ Finished("a")
    /\ calls["a"].call.op = "GetCity"
    /\ calls["a"].call.res # NilResult
    /\ calls["b"].pc = "sent"
    /\ calls["b"].call.op = "GetHolidays"
    /\ calls["b"].o.kind = "err"

====
